---- MODULE Spec2Model ----
(***************************************************************************)
(* Model of the prompt-debugger backend (src/draft5.js, src/app.js,        *)
(* src/app2.js).  One server process of one handler variant serves         *)
(* requests, one after the other under Spec and two at a time under        *)
(* ConcSpec.  An action is one run of JavaScript from one suspension point *)
(* (an await on the LLM service or on the cache file) to the next one, or  *)
(* to the HTTP response.  The variables of a handler are those of the      *)
(* request that runs; the handler of the other request waits in parked.    *)
(*                                                                         *)
(* Texts (governing prompts) are kept as non-empty sequences of lines; a    *)
(* line is its kind k, its length n in characters and cut, whether it ends *)
(* with the "..." of a cut:                                                *)
(*   "T" text that starts with a non-blank character,                      *)
(*   "N" text that starts with whitespace,                                 *)
(*   "I" a list item ("- ..."),                                            *)
(*   "B" an empty line,         "W" a whitespace-only line,                *)
(*   "M" the elision marker "(...truncated similar items)",                *)
(*   "E" an "Example:" line; n is the length of its content in that line.  *)
(* The empty string is the text of one empty line.                         *)
(* Confidence scores are kept in hundredths (0.85 is 85).                  *)
(***************************************************************************)
EXTENDS Integers, Sequences, FiniteSets, TLC

VARIABLES
    variant,      \* which handler variant this server runs
    useCache,     \* process.env.USE_CACHE === 'true'
    pc,           \* where the handler of the current request is suspended
    req,          \* body of the current request (UnitSpec: the arguments of the call)
    reqCount,     \* requests received so far
    response,     \* HTTP response sent for the current request (UnitSpec: how the call ended)
    calls,        \* history: the LLM invocations made for the current request, in order
    inflight,     \* the LLM call in flight (what the service was sent)
    state,        \* AgenticFramework.analyze: let state
    i,            \* AgenticFramework.analyze: loop variable
    diagnosis,    \* AgenticFramework.analyze: const diagnosis of this round
    outcomes,     \* history: how each iteration of this request ended
    cache,        \* analysis_cache directory: analysisId -> stored JSON
    context,      \* step pipeline: agentContext
    received,     \* history: how the last LLM call settled (completion or rejection)
    answers,      \* history, with two requests at a time: how the awaits of analyze settled
    parked        \* the handler of the other request in progress, suspended

vars == << variant, useCache, pc, req, reqCount, response, calls, inflight,
           state, i, diagnosis, outcomes, cache, context, received, answers, parked >>

----
\* Bounds of the model

\* requests one server run receives
MaxRequests == 2
\* length of a diagnosis' modification list
MaxMods == 2
\* lines of a text an agent's operation is called with on its own
MaxLines == 3
\* times compressPrompt is called on its own output
MaxPasses == 2
\* characters of a text truncateToFit is called with
MaxChars == 4
\* turns of a conversation generateAnalysisId is called with
MaxTurns == 3

----
\* Program constants

\* AGENT_CONFIG.maxIterations
maxIterations == 3
\* AGENT_CONFIG.confidenceThreshold, in hundredths
confidenceThreshold == 85
\* AGENT_CONFIG.tokenSafetyMargin, in hundredths
tokenSafetyMargin == 15
\* ContextManager: the max_tokens of a model configuration that gives none
DefaultMaxTokens == 4000

----
\* Texts

\* content.slice(0, 200) and content.length > 200 in shortenExamples
ExampleCap == 200
\* the length of '(...truncated similar items)'
MarkerLength == 28

Kinds == {"B", "W", "T", "N", "I", "M", "E"}
Line == [ k : Kinds, n : Nat, cut : BOOLEAN ]

Ln(kind, length) == [ k |-> kind, n |-> length, cut |-> FALSE ]
Blank == Ln("B", 0)
Marker == Ln("M", MarkerLength)
EmptyText == << Blank >>

\* JavaScript truthiness of a string: only "" is falsy
TruthyText(t) == t # EmptyText

PromptA == << Ln("T", 40), Ln("I", 12), Ln("I", 12), Ln("I", 12), Ln("I", 12),
              Ln("T", 30) >>
UpdatedA == << Ln("T", 40), Ln("E", 250), Blank, Ln("T", 30) >>
UpdatedB == << Ln("I", 12), Ln("W", 2), Ln("I", 12), Ln("I", 12), Ln("I", 12) >>

Drop(s, n) == SubSeq(s, n + 1, Len(s))
Take(s, n) == SubSeq(s, 1, n)

----
\* OptimizationAgent (the three compression heuristics, on lines)

\* index of the first line at or after j that is neither empty nor whitespace
RECURSIVE SkipBlank(_, _)
SkipBlank(ls, j) ==
    IF j <= Len(ls) /\ ls[j].k \in {"B", "W"} THEN SkipBlank(ls, j + 1) ELSE j

\* One repetition of (?:\n\s*-\s[^\n]*) is a newline, any empty or
\* whitespace-only lines (\s matches newlines) and an item line.  Starting
\* at line j with n repetitions matched: << repetitions, last line matched >>
RECURSIVE UnitsFrom(_, _, _)
UnitsFrom(ls, j, n) ==
    LET k == SkipBlank(ls, j)
    IN  IF k <= Len(ls) /\ ls[k].k = "I"
        THEN UnitsFrom(ls, k + 1, n + 1)
        ELSE << n, j - 1 >>

\* the match starts with the newline that ends line p, and the replacement
\* does not start with a newline: the first kept line f (an item or a
\* whitespace-only line) is appended to line p
Merge(p, f) ==
    [ k |-> CASE p.k = "B" -> f.k
              [] p.k = "W" -> IF f.k = "W" THEN "W" ELSE "I"
              [] p.k = "M" -> "T"
              [] OTHER     -> p.k,
      n |-> p.n + f.n,
      cut |-> FALSE ]

\* filter(Boolean) drops the empty strings of match.split('\n')
IsNonEmptyLine(l) == l.k # "B"

RECURSIVE RemoveFrom(_, _)
RemoveFrom(ls, p) ==
    IF p > Len(ls) THEN ls
    ELSE LET u == UnitsFrom(ls, p + 1, 0)
         IN  IF u[1] >= 3
             THEN LET items == SelectSeq(SubSeq(ls, p + 1, u[2]), IsNonEmptyLine)
                  IN  Take(ls, p - 1) \o << Merge(ls[p], items[1]) >>
                        \o SubSeq(items, 2, 3) \o << Marker >>
                        \o RemoveFrom(Drop(ls, u[2]), 1)
             ELSE RemoveFrom(ls, p + 1)

removeRedundantInstructions(prompt) == RemoveFrom(prompt, 1)

\* (Example:\s*)(.*?)(?=\n\S|$) with the s flag: the content that starts in
\* line j runs on over the lines that are empty or start with whitespace, to
\* the last line before one that starts with another character
RECURSIVE ContentEnd(_, _)
ContentEnd(ls, j) ==
    IF j < Len(ls) /\ ls[j + 1].k \in {"B", "W", "N"} THEN ContentEnd(ls, j + 1)
    ELSE j

\* characters of a content that starts in line 1, up to the end of line m
RECURSIVE ContentLength(_, _)
ContentLength(ls, m) ==
    IF m = 1 THEN ls[1].n ELSE ContentLength(ls, m - 1) + 1 + ls[m].n

\* content.slice(0, 200) + '...' for a content in lines 1 .. m: line q, where
\* the cap falls, keeps its first r characters and gets the dots; the lines
\* after it go
CutContent(ls, m) ==
    LET q == CHOOSE t \in 1 .. m :
                 /\ ContentLength(ls, t) >= ExampleCap
                 /\ \A u \in 1 .. (t - 1) : ContentLength(ls, u) < ExampleCap
        r == IF q = 1 THEN ExampleCap
             ELSE ExampleCap - ContentLength(ls, q - 1) - 1
    IN  Take(ls, q - 1)
          \o << [ k |-> IF q = 1 THEN "E" ELSE IF r = 0 THEN "T" ELSE "N",
                  n |-> r + 3, cut |-> TRUE ] >>

RECURSIVE shortenExamples(_)
shortenExamples(prompt) ==
    IF prompt = << >> THEN << >>
    ELSE IF Head(prompt).k = "E"
         THEN LET m == ContentEnd(prompt, 1)
              IN  (IF ContentLength(prompt, m) > ExampleCap
                   THEN CutContent(prompt, m)
                   ELSE Take(prompt, m))
                    \o shortenExamples(Drop(prompt, m))
         ELSE << Head(prompt) >> \o shortenExamples(Tail(prompt))

\* \n{3,} -> \n\n, then ^\s+$ (m flag) -> '': every block of empty and
\* whitespace-only lines ends up as one empty line
RECURSIVE optimizeFormatting(_)
optimizeFormatting(prompt) ==
    IF prompt = << >> THEN << >>
    ELSE IF Head(prompt).k \in {"B", "W"}
         THEN << Blank >> \o optimizeFormatting(Drop(prompt, SkipBlank(prompt, 1) - 1))
         ELSE << Head(prompt) >> \o optimizeFormatting(Tail(prompt))

\* const strategies, in the order of the array
strategies == << "removeRedundantInstructions", "shortenExamples", "optimizeFormatting" >>

\* strategy.call(this, result)
Call(strategy, result) ==
    CASE strategy = "removeRedundantInstructions" -> removeRedundantInstructions(result)
      [] strategy = "shortenExamples" -> shortenExamples(result)
      [] strategy = "optimizeFormatting" -> optimizeFormatting(result)

\* the result is lost when the strategy raises
AttemptLosesResult(strategy, result, raising) ==
    IF strategy \in raising THEN EmptyText ELSE Call(strategy, result)

\* try { result = strategy.call(this, result); } catch (e) { console.warn }:
\* raising holds the strategies whose call raises
Attempt(strategy, result, raising) ==
    IF strategy \in raising THEN result ELSE Call(strategy, result)

\* the for loop over the strategies, from strategy k on
RECURSIVE CompressFrom(_, _, _)
CompressFrom(k, result, raising) ==
    IF k > Len(strategies) THEN result
    ELSE CompressFrom(k + 1, Attempt(strategies[k], result, raising), raising)

\* compressPrompt for a text on which no strategy raises
compressPrompt(prompt) == CompressFrom(1, prompt, {})

----
\* PromptSurgeon

\* only modifications of the governing prompt applied
PatchStepOnTarget(acc, mod) ==
    [result |-> IF mod.target = "dc_node_prompt" THEN mod.updated ELSE acc,
     success |-> TRUE]

\* patch_apply(patch_make(acc, mod.updated), acc): the patches are the diff
\* from acc to mod.updated and are applied to acc itself, so every patch
\* matches at its expected place and the result is mod.updated
PatchStep(acc, mod) == [result |-> mod.updated, success |-> TRUE]

RECURSIVE applyModifications(_, _)
applyModifications(originalPrompt, modifications) ==
    IF modifications = << >> THEN originalPrompt
    ELSE applyModifications(PatchStep(originalPrompt, Head(modifications)).result,
                            Tail(modifications))

----
\* Values

\* the value of a variable or property that was never set
Undefined == "undefined"
Variants == {"agentic", "steps", "app", "app_bot", "app2"}

\* a turn of the conversation is kept as its character code
Histories == { << >>, << 1, 2 >>, << 3, 1, 2 >>, << 4, 3, 1, 2 >> }
Fields == {"conversationHistory", "targetBotResponse", "userFeedback",
           "dc_node_prompt", "configuredPrompts", "isAgenticBot",
           "model_configuration"}

\* model_configuration.max_tokens of a request of the agentic handler: none
\* given (the default stays), or one that leaves 2 tokens to the system prompt
ConfiguredMaxTokens == {DefaultMaxTokens, 1768}

\* Request bodies.  present: the properties the body has; a property that is
\* absent reads as undefined, and keeps a fixed filler value in the record.
\* configuredPrompts holds the keys whose prompt is a non-empty string.
Bodies ==
    { b \in [ present : SUBSET Fields,
              conversationHistory : Histories,
              targetBotResponse : {"", "reply"},
              userFeedback : {"", "feedback"},
              dc_node_prompt : {EmptyText, PromptA},
              configuredPrompts : { {}, {"AGENT", "KNOWLEDGE_BASE", "CONVERSATION"},
                                    {"AGENT", "CONVERSATION"}, {"SYSTEM_PROMPT"} },
              isAgenticBot : BOOLEAN,
              max_tokens : ConfiguredMaxTokens ] :
        /\ "conversationHistory" \notin b.present => b.conversationHistory = << >>
        /\ "targetBotResponse" \notin b.present => b.targetBotResponse = ""
        /\ "userFeedback" \notin b.present => b.userFeedback = ""
        /\ "dc_node_prompt" \notin b.present => b.dc_node_prompt = EmptyText
        /\ "configuredPrompts" \notin b.present => b.configuredPrompts = {}
        /\ "isAgenticBot" \notin b.present => b.isAgenticBot = TRUE
        /\ "model_configuration" \notin b.present => b.max_tokens = DefaultMaxTokens
        /\ "model_configuration" \in b.present => b.max_tokens # DefaultMaxTokens }

\* Only the step pipeline keeps something from one request to the next (its
\* cache files): the other handlers build everything anew per request, and
\* one request of theirs is followed
RequestsOf(v) == IF v = "steps" THEN MaxRequests ELSE IF parked.pc # "absent" THEN 2 ELSE 1

\* the properties a variant's handler reads
FieldsOf(v) ==
    IF v \in {"app", "app_bot"}
    THEN {"conversationHistory", "targetBotResponse", "userFeedback", "configuredPrompts"}
           \cup (IF v = "app_bot" THEN {"isAgenticBot"} ELSE {})
    ELSE {"conversationHistory", "targetBotResponse", "userFeedback", "dc_node_prompt"}
           \cup (IF v = "agentic" THEN {"model_configuration"} ELSE {})

\* !body[field]: an absent property and an empty string are falsy, an
\* array (also an empty one) and an object are truthy
Falsy(body, field) ==
    \/ field \notin body.present
    \/ field = "targetBotResponse" /\ body.targetBotResponse = ""
    \/ field = "userFeedback" /\ body.userFeedback = ""
    \/ field = "dc_node_prompt" /\ ~TruthyText(body.dc_node_prompt)

NoBody == [ present |-> {}, conversationHistory |-> << >>, targetBotResponse |-> "",
            userFeedback |-> "", dc_node_prompt |-> EmptyText,
            configuredPrompts |-> {}, isAgenticBot |-> TRUE,
            max_tokens |-> DefaultMaxTokens ]

----
\* LLM completions

\* current: the lines the modification says are to be replaced
Modifications ==
    { [ target |-> "dc_node_prompt", current |-> << Ln("I", 12) >>, updated |-> UpdatedA ],
      [ target |-> "variable_prompt", current |-> << Ln("T", 30) >>, updated |-> UpdatedB ] }

RECURSIVE SeqsUpTo(_, _)
SeqsUpTo(S, n) ==
    IF n = 0 THEN { << >> }
    ELSE LET shorter == SeqsUpTo(S, n - 1)
         IN  shorter \cup { Append(q, e) : q \in shorter, e \in S }

ModLists == SeqsUpTo(Modifications, MaxMods)

\* A completion of the diagnosis call.  fenced: wrapped in a ``` block;
\* kind "garbage": not JSON, "invalid": JSON that violates the diagnosis
\* schema, "ok": JSON that satisfies it.  prompt_changes.modifications is
\* not required by the schema: hasMods says whether it is there.
DiagCompletions ==
    { [ fenced |-> f, kind |-> "ok", hasMods |-> TRUE, mods |-> m ] :
        f \in BOOLEAN, m \in ModLists }
    \cup { [ fenced |-> FALSE, kind |-> k, hasMods |-> FALSE, mods |-> << >> ] :
        k \in {"garbage", "invalid", "ok"} }

NoDiagnosis == [ hasMods |-> FALSE, mods |-> << >> ]

\* A completion of the validation call.  hasValid, confidence: the fields
\* of the JSON object; tokenUsage 0: the object has no such field.
VerdictCompletions ==
    { [ fenced |-> FALSE, kind |-> "garbage", hasValid |-> FALSE, valid |-> FALSE,
        confidence |-> 0, tokenUsage |-> 0 ],
      [ fenced |-> TRUE, kind |-> "json", hasValid |-> TRUE, valid |-> TRUE,
        confidence |-> 100, tokenUsage |-> 0 ],
      [ fenced |-> FALSE, kind |-> "json", hasValid |-> FALSE, valid |-> FALSE,
        confidence |-> 100, tokenUsage |-> 0 ],
      [ fenced |-> FALSE, kind |-> "json", hasValid |-> TRUE, valid |-> TRUE,
        confidence |-> 150, tokenUsage |-> 0 ],
      [ fenced |-> FALSE, kind |-> "json", hasValid |-> TRUE, valid |-> TRUE,
        confidence |-> 100, tokenUsage |-> 0 ],
      [ fenced |-> FALSE, kind |-> "json", hasValid |-> TRUE, valid |-> FALSE,
        confidence |-> 85, tokenUsage |-> 5 ],
      [ fenced |-> FALSE, kind |-> "json", hasValid |-> TRUE, valid |-> TRUE,
        confidence |-> 84, tokenUsage |-> 0 ],
      [ fenced |-> FALSE, kind |-> "json", hasValid |-> TRUE, valid |-> FALSE,
        confidence |-> 0, tokenUsage |-> 5 ] }

\* what an await yields: the completion, or the rejection of the call
Thrown(message) == [ threw |-> TRUE, message |-> message ]
Returned(value) == [ threw |-> FALSE, value |-> value ]

\* no LLM call of this request has settled
NoReceived == [ threw |-> FALSE, value |-> Undefined ]

\* no second request is in progress
NoPeer == [ pc |-> "absent" ]

\* the server takes two requests at a time
Concurrent == parked.pc # "absent"

\* With two requests at a time the requests and the completions are drawn
\* from these smaller sets: two bodies that pass the checks and have the
\* same last two turns, and the completions that are JSON as they stand.
ConcBodies ==
    { b \in Bodies :
        /\ b.present = {"conversationHistory", "targetBotResponse", "userFeedback",
                        "dc_node_prompt"}
        /\ b.conversationHistory \in { << 1, 2 >>, << 3, 1, 2 >> }
        /\ b.targetBotResponse = "reply" /\ b.userFeedback = "feedback"
        /\ b.dc_node_prompt = PromptA }

ConcCompletions ==
    { [ fenced |-> FALSE, kind |-> "ok", hasMods |-> TRUE, mods |-> << m >> ] :
        m \in Modifications }
    \cup { c \in VerdictCompletions :
             ~c.fenced /\ c.kind = "json" /\ c.hasValid /\ c.confidence \in {84, 85} }
    \cup { [ fenced |-> FALSE, kind |-> "json", value |-> v ] :
             v \in {"stepResult", "reportA", "reportB"} }

Incoming == IF Concurrent THEN ConcBodies ELSE Bodies

\* how a call to the LLM service can settle: it is rejected, or returns one
\* of the completions
Settlements(completions) ==
    {Thrown("ServiceError")}
      \cup { Returned(c) : c \in IF Concurrent THEN completions \cap ConcCompletions
                                  ELSE completions }

\* the settlements of the request in progress with r, the latest, added
Heard(r) == IF Concurrent THEN Append(answers, r) ELSE answers

----
\* ContextManager and its encoder (tiktoken, cl100k_base: byte pair encoding
\* of the UTF-8 bytes).  A content here is a sequence of characters.

\* "U" is a character of two bytes, "R" the replacement character U+FFFD
Characters == {"a", "b", "U"}

Utf8(ch) ==
    CASE ch = "U" -> << "u1", "u2" >>
      [] ch = "R" -> << "r1", "r2", "r3" >>
      [] OTHER    -> << ch >>

RECURSIVE Flatten(_)
Flatten(seqs) == IF seqs = << >> THEN << >> ELSE Head(seqs) \o Flatten(Tail(seqs))

\* The merges of the vocabulary in the order of their rank; a token is a
\* sequence of bytes.  The two bytes of "U" are not merged: the character
\* takes two tokens.
Merges ==
    << << << "a" >>, << "b" >> >>,
       << << "a", "b" >>, << "a" >> >>,
       << << "b" >>, << "b" >> >>,
       << << "r1" >>, << "r2" >> >>,
       << << "r1", "r2" >>, << "r3" >> >> >>

Rank(l, r) ==
    IF \E k \in DOMAIN Merges : Merges[k] = << l, r >>
    THEN CHOOSE k \in DOMAIN Merges : Merges[k] = << l, r >>
    ELSE Len(Merges) + 1

\* the pair of lowest rank, the leftmost one of them, is merged until no
\* adjacent pair has a rank
RECURSIVE BytePairMerge(_)
BytePairMerge(parts) ==
    IF Len(parts) < 2 THEN parts
    ELSE LET pairs == 1 .. (Len(parts) - 1)
             rk(j) == Rank(parts[j], parts[j + 1])
             best == CHOOSE j \in pairs :
                         \A h \in pairs : rk(j) < rk(h) \/ (rk(j) = rk(h) /\ j <= h)
         IN  IF rk(best) > Len(Merges) THEN parts
             ELSE BytePairMerge(Take(parts, best - 1)
                                  \o << parts[best] \o parts[best + 1] >>
                                  \o Drop(parts, best + 1))

\* this.encoder.encode(content)
encode(content) ==
    LET bytes == Flatten([ j \in 1 .. Len(content) |-> Utf8(content[j]) ])
    IN  BytePairMerge([ j \in 1 .. Len(bytes) |-> << bytes[j] >> ])

\* the bytes hold whole characters only
RECURSIVE WellFormed(_)
WellFormed(bytes) ==
    IF bytes = << >> THEN TRUE
    ELSE IF Head(bytes) = "u1"
         THEN Len(bytes) >= 2 /\ bytes[2] = "u2" /\ WellFormed(Drop(bytes, 2))
    ELSE IF Head(bytes) = "r1"
         THEN /\ Len(bytes) >= 3 /\ bytes[2] = "r2" /\ bytes[3] = "r3"
              /\ WellFormed(Drop(bytes, 3))
    ELSE Head(bytes) \notin {"u2", "r2", "r3"} /\ WellFormed(Tail(bytes))

\* the characters of the bytes, U+FFFD for bytes that are not a character
RECURSIVE Characterize(_)
Characterize(bytes) ==
    IF bytes = << >> THEN << >>
    ELSE IF Len(bytes) >= 2 /\ Head(bytes) = "u1" /\ bytes[2] = "u2"
         THEN << "U" >> \o Characterize(Drop(bytes, 2))
    ELSE IF Len(bytes) >= 3 /\ Head(bytes) = "r1" /\ bytes[2] = "r2" /\ bytes[3] = "r3"
         THEN << "R" >> \o Characterize(Drop(bytes, 3))
    ELSE IF Head(bytes) \in {"a", "b"}
         THEN << Head(bytes) >> \o Characterize(Tail(bytes))
    ELSE << "R" >> \o Characterize(Tail(bytes))

\* this.encoder.decode(tokens): what the call can do.  For bytes that end
\* inside a character the binding either raises or puts U+FFFD.
decode(tokens) ==
    LET bytes == Flatten(tokens)
    IN  IF WellFormed(bytes) THEN { Returned(Characterize(bytes)) }
        ELSE { Thrown("EncodingError"), Returned(Characterize(bytes)) }

\* Math.floor(this.modelConfig.max_tokens * (1 - AGENT_CONFIG.tokenSafetyMargin))
calculateTokenBudget(max_tokens) ==
    (max_tokens * (100 - tokenSafetyMargin)) \div 100

\* tokens.slice(0, end): a negative end counts from the end
Slice(tokens, end) ==
    IF end >= 0 THEN Take(tokens, IF end < Len(tokens) THEN end ELSE Len(tokens))
    ELSE Take(tokens, IF Len(tokens) + end > 0 THEN Len(tokens) + end ELSE 0)

\* one token more than the budget lets through
truncateToFitOneMore(content, reservedTokens, max_tokens) ==
    LET maxTokens == calculateTokenBudget(max_tokens) - reservedTokens
        tokens == encode(content)
    IN  IF Len(tokens) > maxTokens + 1
        THEN decode(Slice(tokens, maxTokens + 1))
        ELSE { Returned(content) }

\* the outcomes of truncateToFit(content, reservedTokens) for a context
\* manager configured with max_tokens
truncateToFit(content, reservedTokens, max_tokens) ==
    LET maxTokens == calculateTokenBudget(max_tokens) - reservedTokens
        tokens == encode(content)
    IN  IF Len(tokens) > maxTokens
        THEN decode(Slice(tokens, maxTokens))
        ELSE { Returned(content) }

----
\* DiagnosticAgent

\* PROMPT_LIBRARY.system, read from the prompt library when the server
\* starts: three tokens, the last two the bytes of one character
SystemPrompt == << "a", "b", "U" >>

\* the outcomes of ${this.contextManager.truncateToFit(PROMPT_LIBRARY.system,
\* 1500)} at the head of buildAnalysisPrompt, for each max_tokens a request
\* can configure
SystemSections ==
    [ max_tokens \in ConfiguredMaxTokens |->
        truncateToFit(SystemPrompt, 1500, max_tokens) ]

SystemSection(max_tokens) == SystemSections[max_tokens]

\* the request's prompt sent in every round, not the state's
buildAnalysisPromptOriginal(inputs) ==
    [ step |-> "diagnosis", prompt |-> req'.dc_node_prompt,
      history |-> inputs.conversationHistory ]

\* the CURRENT PROMPT section and the conversation sent with the call
buildAnalysisPrompt(inputs) ==
    [ step |-> "diagnosis", prompt |-> inputs.dc_node_prompt,
      history |-> inputs.conversationHistory ]

\* the fence is stripped before JSON.parse; a parse error and a schema
\* violation are both rethrown
validateResponse(completion) ==
    IF completion.kind = "ok"
    THEN Returned([ hasMods |-> completion.hasMods, mods |-> completion.mods ])
    ELSE Thrown("Response validation failed")

----
\* ValidationAgent

DefaultVerdict ==
    [ valid |-> FALSE, confidence |-> 0, tokenUsage |-> 0,
      issues |-> << "Validation failed" >> ]

\* required: valid, confidence; confidence: number, minimum 0, maximum 1
VerdictSchemaOk(v) == v.hasValid /\ v.confidence >= 0 /\ v.confidence <= 100

\* the parsed object returned without the schema check
parseValidationResultUnchecked(completion) ==
    IF ~completion.fenced /\ completion.kind = "json"
    THEN [ valid |-> completion.valid, confidence |-> completion.confidence,
           tokenUsage |-> completion.tokenUsage, issues |-> << >> ]
    ELSE DefaultVerdict

\* JSON.parse of the raw completion (a fence is not stripped here), then
\* the schema; any failure gives the default verdict
parseValidationResult(completion) ==
    IF ~completion.fenced /\ completion.kind = "json" /\ VerdictSchemaOk(completion)
    THEN [ valid |-> completion.valid, confidence |-> completion.confidence,
           tokenUsage |-> completion.tokenUsage, issues |-> << >> ]
    ELSE DefaultVerdict

\* the validation asked for the prompt as it came with the request
buildValidationPromptOfOriginal(solution) ==
    [ step |-> "validation", prompt |-> solution.original, history |-> << >> ]

buildValidationPrompt(solution) ==
    [ step |-> "validation", prompt |-> solution.modified, history |-> << >> ]

----
\* AgenticFramework.analyze and its handler (src/draft5.js, second server)

NoCall == [ step |-> "none", prompt |-> EmptyText, history |-> << >> ]
NoResponse == [ code |-> 0 ]
NoState == [ dc_node_prompt |-> EmptyText, conversationHistory |-> << >>,
             iteration |-> 0, tokenUsage |-> << >>, lastError |-> Undefined ]
NoContext == [ analysisId |-> << 0, 0 >>, analysisSteps |-> << >>,
               failedSteps |-> {}, result |-> Undefined ]

RECURSIVE Sum(_)
Sum(q) == IF q = << >> THEN 0 ELSE Head(q) + Sum(Tail(q))

\* the body a handler's catch sends with status 500
ErrorBody(message) ==
    [ error |-> "An error occurred during prompt analysis", details |-> message ]

\* res.status(code).json(body): the handler is done
Respond(code, body) ==
    /\ response' = [ code |-> code, body |-> body ]
    /\ pc' = "idle"
    /\ inflight' = NoCall

\* the loop bound off by one
LoopContinuesOffByOne(ii) == ii <= maxIterations

\* for (...; i < AGENT_CONFIG.maxIterations; ...)
LoopContinues(ii) == ii < maxIterations

\* a verdict accepted only when it also says valid
AcceptsWhenValid(validation) ==
    validation.valid /\ validation.confidence >= confidenceThreshold

\* the threshold itself not accepted
AcceptsStrict(validation) == validation.confidence > confidenceThreshold

\* if (validation.confidence >= AGENT_CONFIG.confidenceThreshold)
Accepts(validation) == validation.confidence >= confidenceThreshold

\* the usage of the last validation reported as the total
SuccessResultLastUsage(st, d, validation) ==
    [ status |-> "success", analysis |-> d, modified_prompt |-> st.dc_node_prompt,
      validation |-> validation, iterations |-> st.iteration,
      tokens_used |-> validation.tokenUsage ]

\* the count taken before state.iteration++
SuccessResultBeforeCount(st, d, validation) ==
    [ status |-> "success", analysis |-> d, modified_prompt |-> st.dc_node_prompt,
      validation |-> validation, iterations |-> st.iteration - 1,
      tokens_used |-> Sum(st.tokenUsage) ]

\* the recorded error copied into the success result
SuccessResultWithError(st, d, validation) ==
    [ status |-> "success", analysis |-> d, modified_prompt |-> st.dc_node_prompt,
      validation |-> validation, iterations |-> st.iteration,
      tokens_used |-> Sum(st.tokenUsage), last_error |-> st.lastError ]

SuccessResult(st, d, validation) ==
    [ status |-> "success", analysis |-> d, modified_prompt |-> st.dc_node_prompt,
      validation |-> validation, iterations |-> st.iteration,
      tokens_used |-> Sum(st.tokenUsage) ]

\* state.lastError || 'Unknown error'
ExhaustedResult(st) ==
    [ status |-> "max_iterations_reached", final_prompt |-> st.dc_node_prompt,
      iterations |-> st.iteration, tokens_used |-> Sum(st.tokenUsage),
      last_error |-> IF st.lastError \in {Undefined, ""} THEN "Unknown error"
                     ELSE st.lastError ]

\* res.json(result) for every result
SendResultAlwaysOk(result) == Respond(200, result)

\* if (result.status === 'success') 200 else 422
SendResult(result) ==
    Respond(IF result.status = "success" THEN 200 ELSE 422, result)

\* The head of the loop, reached with state st, loop variable ii, made the
\* LLM invocations so far and outs the iterations ended: the next round's
\* diagnosis call is issued, or the loop is left and analyze returns.
EnterIteration(st, ii, made, outs, max_tokens) ==
    /\ state' = st
    /\ i' = ii
    /\ outcomes' = outs
    /\ diagnosis' = NoDiagnosis
    /\ IF LoopContinues(ii)
       THEN /\ response' = NoResponse
            /\ \E system \in SystemSection(max_tokens) :
                  IF system.threw
                  THEN \* the promise of diagnosticAgent.analyze is rejected
                       \* before queryLLM is reached
                       /\ inflight' = NoCall
                       /\ calls' = made
                       /\ pc' = "diagnosisRejected"
                  ELSE /\ inflight' = buildAnalysisPrompt(st)
                       /\ calls' = Append(made, "diagnosis")
                       /\ pc' = "awaitDiagnosis"
       ELSE /\ calls' = made
            /\ SendResult(ExhaustedResult(st))

\* the record of an iteration: how it ended, the message of the error it
\* raised, and the verdict it got (confidence -1: it got none)
Ended(outcome, message, validation) ==
    [ end |-> outcome, error |-> message,
      confidence |-> IF outcome \in {"accepted", "retry"} THEN validation.confidence
                     ELSE -1,
      valid |-> validation.valid ]

\* no try around the body of the loop: the error leaves analyze and the
\* handler's catch answers 500
CatchRethrows(message, outcome) ==
    /\ outcomes' = Append(outcomes, Ended(outcome, message, DefaultVerdict))
    /\ Respond(500, ErrorBody(message))
    /\ UNCHANGED << state, i, diagnosis, calls >>

\* the failed iteration counted as one
CatchCountsIteration(message, outcome) ==
    EnterIteration([ state EXCEPT !.lastError = message, !.iteration = @ + 1 ],
                   i + 1, calls,
                   Append(outcomes, Ended(outcome, message, DefaultVerdict)),
                   req.max_tokens)

\* the prompt put back to the request's when an iteration raises
CatchRollsBack(message, outcome) ==
    EnterIteration([ state EXCEPT !.lastError = message,
                                  !.dc_node_prompt = req.dc_node_prompt ],
                   i + 1, calls,
                   Append(outcomes, Ended(outcome, message, DefaultVerdict)),
                   req.max_tokens)

\* the error swallowed without being recorded
CatchForgets(message, outcome) ==
    EnterIteration(state, i + 1, calls,
                   Append(outcomes, Ended(outcome, message, DefaultVerdict)),
                   req.max_tokens)

\* catch (e) { state.lastError = e.message; } and the loop's i++
Catch(message, outcome) ==
    EnterIteration([ state EXCEPT !.lastError = message ], i + 1, calls,
                   Append(outcomes, Ended(outcome, message, DefaultVerdict)),
                   req.max_tokens)

RequiredFields ==
    {"conversationHistory", "targetBotResponse", "userFeedback", "dc_node_prompt"}

AgenticReceive ==
    /\ variant = "agentic"
    /\ pc = "idle"
    /\ reqCount < RequestsOf(variant)
    /\ \E body \in Incoming :
        /\ body.present \subseteq FieldsOf(variant)
        /\ req' = body
        /\ reqCount' = reqCount + 1
        /\ LET missingFields == { f \in RequiredFields : Falsy(body, f) }
           IN  IF missingFields # {}
               THEN /\ Respond(400, [ error |-> "Missing required fields",
                                      missing |-> missingFields ])
                    /\ calls' = << >>
                    /\ state' = NoState
                    /\ i' = 0
                    /\ outcomes' = << >>
                    /\ diagnosis' = NoDiagnosis
               ELSE EnterIteration(
                        [ dc_node_prompt |-> body.dc_node_prompt,
                          conversationHistory |-> body.conversationHistory,
                          iteration |-> 0, tokenUsage |-> << >>,
                          lastError |-> Undefined ],
                        0, << >>, << >>, body.max_tokens)
    /\ received' = NoReceived
    /\ answers' = << >>
    /\ UNCHANGED << variant, parked, useCache, cache, context >>

\* await this.diagnosticAgent.analyze(state) of a promise that
\* buildAnalysisPrompt rejected: the error is thrown into the try of the loop
DiagnosisRejects ==
    /\ pc = "diagnosisRejected"
    /\ UNCHANGED << variant, parked, useCache, req, reqCount, cache, context >>
    /\ received' = Thrown("EncodingError")
    /\ answers' = Heard(Thrown("EncodingError"))
    /\ Catch("EncodingError", "diagnosis_failed")

\* const diagnosis = await this.diagnosticAgent.analyze(state) settles; on a
\* diagnosis, the patch, the compression and the validation call follow
DiagnosisReturns ==
    /\ pc = "awaitDiagnosis"
    /\ UNCHANGED << variant, parked, useCache, req, reqCount, cache, context >>
    /\ \E r \in Settlements(DiagCompletions) :
        /\ received' = r
        /\ answers' = Heard(r)
        /\ LET res == IF r.threw THEN r ELSE validateResponse(r.value)
           IN  IF res.threw
               THEN Catch(res.message, "diagnosis_failed")
               ELSE IF ~res.value.hasMods
               THEN \* undefined.reduce
                    Catch("TypeError", "patch_failed")
               ELSE LET modifiedPrompt ==
                            applyModifications(state.dc_node_prompt, res.value.mods)
                        compressed == compressPrompt(modifiedPrompt)
                    IN  /\ state' = [ state EXCEPT !.dc_node_prompt = compressed ]
                        /\ diagnosis' = res.value
                        /\ inflight' = buildValidationPrompt(
                                           [ original |-> req.dc_node_prompt,
                                             modified |-> compressed,
                                             analysis |-> res.value ])
                        /\ calls' = Append(calls, "validation")
                        /\ pc' = "awaitValidation"
                        /\ UNCHANGED << i, outcomes, response >>

\* const validation = await this.validator.validate(...) settles
ValidationReturns ==
    /\ pc = "awaitValidation"
    /\ UNCHANGED << variant, parked, useCache, req, reqCount, cache, context >>
    /\ \E r \in Settlements(VerdictCompletions) :
        /\ received' = r
        /\ answers' = Heard(r)
        /\ IF r.threw
           THEN Catch(r.message, "validation_failed")
           ELSE LET validation == parseValidationResult(r.value)
                    st == [ state EXCEPT !.tokenUsage = Append(@, validation.tokenUsage),
                                         !.iteration = @ + 1 ]
                IN  IF Accepts(validation)
                    THEN /\ state' = st
                         /\ outcomes' = Append(outcomes, Ended("accepted", "", validation))
                         /\ SendResult(SuccessResult(st, diagnosis, validation))
                         /\ UNCHANGED << i, diagnosis, calls >>
                    ELSE EnterIteration(st, i + 1, calls,
                                        Append(outcomes, Ended("retry", "", validation)),
                                        req.max_tokens)

----
\* The step pipeline and its handler (src/draft5.js, first server)

\* the characters of JSON.stringify({conversationHistory: last two turns,
\* targetResponse, feedback}), one code per turn and per string
StrCode(str) == IF str = "" THEN 4 ELSE IF str = "reply" THEN 5 ELSE 6
SeparatorCode == 9

\* the whole conversation
LastTwoOfAll(conversationHistory) == conversationHistory

\* conversationHistory.slice(-2)
LastTwo(conversationHistory) ==
    IF Len(conversationHistory) <= 2 THEN conversationHistory
    ELSE Drop(conversationHistory, Len(conversationHistory) - 2)

\* hash = ((hash << 5) - hash) + char; hash = hash & hash: 31 * hash + char
\* in 32 bits, here on the two 16-bit halves << high, low >>
Half == 65536

HashStep(hash, char) ==
    LET low == 31 * hash[2] + char
        high == 31 * hash[1] + (low \div Half)
    IN  << high % Half, low % Half >>

RECURSIVE HashOf(_, _)
HashOf(hash, content) ==
    IF content = << >> THEN hash
    ELSE HashOf(HashStep(hash, Head(content)), Tail(content))

\* Math.abs of the 32-bit two's complement value
Abs32(hash) ==
    IF hash[1] < Half \div 2 THEN hash
    ELSE IF hash[2] = 0 THEN << Half - hash[1], 0 >>
         ELSE << Half - 1 - hash[1], Half - hash[2] >>

\* const content = JSON.stringify({conversationHistory: ..., targetResponse, feedback})
AnalysisContent(conversationHistory, targetBotResponse, userFeedback) ==
    LastTwo(conversationHistory) \o << SeparatorCode >>
      \o << StrCode(targetBotResponse) >> \o << SeparatorCode >>
      \o << StrCode(userFeedback) >>

generateAnalysisId(conversationHistory, targetBotResponse, userFeedback) ==
    Abs32(HashOf(<< 0, 0 >>,
                 AnalysisContent(conversationHistory, targetBotResponse, userFeedback)))

\* JSON values a completion can hold; null is the only falsy one here
JsonNull == "null"
Truthy(value) == value # JsonNull

FallbackResult == "fallbackReport"

\* the results a pipeline can end with
JsonValues == {"reportA", "reportB", JsonNull, FallbackResult}

\* JSON.stringify(result): the characters of the text, which differ in
\* number from one result to the other
Stringify(value) ==
    CASE value = "reportA" -> << "{", "a", "a", "}" >>
      [] value = "reportB" -> << "{", "b", "}" >>
      [] value = FallbackResult -> << "{", "f", "f", "f", "}" >>
      [] value = JsonNull -> << "n", "u", "l", "l" >>

\* JSON.parse(data): the value of a JSON text, a SyntaxError for any other
\* text (the empty one too)
Parse(data) ==
    IF \E v \in JsonValues : Stringify(v) = data
    THEN Returned(CHOOSE v \in JsonValues : Stringify(v) = data)
    ELSE Thrown("SyntaxError")

\* the file never found
getCachedResultMiss(files, analysisId) == JsonNull

\* fs.readFile and JSON.parse; every failure gives null
getCachedResult(files, analysisId) ==
    IF \E e \in files : e.id = analysisId
    THEN LET parsed == Parse((CHOOSE e \in files : e.id = analysisId).file)
         IN  IF parsed.threw THEN JsonNull ELSE parsed.value
    ELSE JsonNull

\* the file opened without being cut (flag 'r+', created when missing)
OpenKeeps(files, analysisId) ==
    IF \E e \in files : e.id = analysisId THEN files
    ELSE files \cup { [ id |-> analysisId, file |-> << >> ] }

\* fs.writeFile, first part: the file of the id is opened with flag 'w',
\* which creates it or cuts it to length 0
OpenTruncate(files, analysisId) ==
    { e \in files : e.id # analysisId } \cup { [ id |-> analysisId, file |-> << >> ] }

\* fs.writeFile, second part: the data is written from the start of the
\* file, over what the file holds by then; what lies beyond the data stays
WriteData(files, analysisId, data) ==
    LET old == (CHOOSE e \in files : e.id = analysisId).file
    IN  { e \in files : e.id # analysisId }
          \cup { [ id |-> analysisId, file |-> data \o Drop(old, Len(data)) ] }

\* fs.writeFile with no other operation on the file in between
cacheResult(files, analysisId, result) ==
    WriteData(OpenTruncate(files, analysisId), analysisId, Stringify(result))

\* the validation of the solutions asked for after their refinement
StepNamesRefineFirst ==
    << "problemAnalysis", "rootCauseAnalysis", "solutionGeneration",
       "solutionRefinement", "solutionValidation", "finalResponse" >>

StepNames == << "problemAnalysis", "rootCauseAnalysis", "solutionGeneration",
                "solutionValidation", "solutionRefinement", "finalResponse" >>

\* A completion of a step: possibly fenced text that is JSON or not
StepCompletions(stepName) ==
    { [ fenced |-> f, kind |-> "json", value |-> v ] :
        f \in BOOLEAN,
        v \in IF stepName = "finalResponse" THEN {"reportA", "reportB", JsonNull}
              ELSE {"stepResult"} }
    \cup { [ fenced |-> FALSE, kind |-> "garbage", value |-> "text" ] }

\* callLLM strips the fence and the backticks; JSON.parse of the rest
ParseStep(completion) ==
    IF completion.kind = "json" THEN Returned(completion.value)
    ELSE Thrown("SyntaxError")

buildStepPrompt(body, stepName) ==
    [ step |-> stepName, prompt |-> body.dc_node_prompt,
      history |-> IF Len(body.conversationHistory) <= 3 THEN body.conversationHistory
                  ELSE Drop(body.conversationHistory, Len(body.conversationHistory) - 3) ]

\* callLLM: const stepConfigs (temperature in hundredths)
stepConfigs ==
    [ problemAnalysis |-> [ temperature |-> 20, max_tokens |-> 1500 ],
      rootCauseAnalysis |-> [ temperature |-> 10, max_tokens |-> 2000 ],
      solutionGeneration |-> [ temperature |-> 70, max_tokens |-> 2500 ],
      solutionValidation |-> [ temperature |-> 10, max_tokens |-> 1500 ],
      solutionRefinement |-> [ temperature |-> 30, max_tokens |-> 2000 ] ]

\* a step missing from the table takes the first entry
StepConfigFirstEntry(stepName) ==
    IF stepName \in DOMAIN stepConfigs THEN stepConfigs[stepName]
    ELSE stepConfigs.problemAnalysis

\* const config = stepConfigs[stepName] || { temperature: 0.5, max_tokens: 2000 }
StepConfig(stepName) ==
    IF stepName \in DOMAIN stepConfigs THEN stepConfigs[stepName]
    ELSE [ temperature |-> 50, max_tokens |-> 2000 ]

\* callLLM up to its await: the one request it sends to the service
callLLM(prompt, stepName) ==
    [ step |-> stepName, prompt |-> prompt.prompt, history |-> prompt.history,
      model |-> "gpt-4o", temperature |-> StepConfig(stepName).temperature,
      max_tokens |-> StepConfig(stepName).max_tokens ]

\* the parts of a handler's state the agentic loop owns stay at rest
LoopAtRest ==
    /\ state' = NoState
    /\ i' = 0
    /\ outcomes' = << >>
    /\ diagnosis' = NoDiagnosis

StepsReceive ==
    /\ variant = "steps"
    /\ pc = "idle"
    /\ reqCount < RequestsOf(variant)
    /\ \E body \in Incoming :
        /\ body.present \subseteq FieldsOf(variant)
        /\ req' = body
        /\ reqCount' = reqCount + 1
        /\ calls' = << >>
        /\ IF \/ Falsy(body, "conversationHistory")
              \/ Falsy(body, "targetBotResponse")
              \/ Falsy(body, "userFeedback")
           THEN /\ Respond(400, [ error |-> "Missing required fields" ])
                /\ context' = NoContext
           ELSE IF Falsy(body, "dc_node_prompt")
           THEN /\ Respond(400, [ error |-> "Missing required DC Node prompt." ])
                /\ context' = NoContext
           ELSE /\ context' = [ NoContext EXCEPT !.analysisId =
                                  generateAnalysisId(body.conversationHistory,
                                      body.targetBotResponse, body.userFeedback) ]
                /\ pc' = "awaitCacheRead"
                /\ response' = NoResponse
                /\ inflight' = NoCall
    /\ LoopAtRest
    /\ received' = NoReceived
    /\ answers' = << >>
    /\ UNCHANGED << variant, parked, useCache, cache >>

\* await getCachedResult(analysisId) settles
CacheReadReturns ==
    /\ pc = "awaitCacheRead"
    /\ LET cachedResult == getCachedResult(cache, context.analysisId)
       IN  IF Truthy(cachedResult) /\ useCache
           THEN /\ Respond(200, cachedResult)
                /\ UNCHANGED calls
           ELSE /\ inflight' = callLLM(buildStepPrompt(req, StepNames[1]), StepNames[1])
                /\ calls' = Append(calls, StepNames[1])
                /\ pc' = "awaitStep"
                /\ UNCHANGED response
    /\ UNCHANGED << variant, parked, useCache, req, reqCount, state, i, diagnosis,
                    outcomes, cache, context, received,
                    answers >>

\* await callLLM(prompt, stepName) settles, in executeStep or in
\* generateFinalResponse
StepReturns ==
    /\ pc = "awaitStep"
    /\ \E r \in Settlements(StepCompletions(inflight.step)) :
        /\ received' = r
        /\ answers' = answers
        /\ IF r.threw
           THEN /\ Respond(500, ErrorBody(r.message))
                /\ UNCHANGED << calls, context >>
           ELSE LET parsed == ParseStep(r.value)
                    stepName == inflight.step
                    k == CHOOSE n \in 1 .. Len(StepNames) : StepNames[n] = stepName
                IN  IF stepName # "finalResponse"
                    THEN /\ context' =
                              IF parsed.threw
                              THEN [ context EXCEPT !.failedSteps = @ \cup {stepName} ]
                              ELSE [ context EXCEPT !.analysisSteps =
                                       Append(@, [ step |-> stepName,
                                                   result |-> parsed.value ]) ]
                         /\ inflight' = callLLM(buildStepPrompt(req, StepNames[k + 1]),
                                               StepNames[k + 1])
                         /\ calls' = Append(calls, StepNames[k + 1])
                         /\ UNCHANGED << pc, response >>
                    ELSE \* const result = await executeAgentPipeline(agentContext)
                         /\ context' = [ context EXCEPT !.result =
                                           IF parsed.threw THEN FallbackResult
                                           ELSE parsed.value ]
                         /\ inflight' = NoCall
                         /\ pc' = "awaitCacheOpen"
                         /\ UNCHANGED << calls, response >>
    /\ UNCHANGED << variant, parked, useCache, req, reqCount, state, i, diagnosis,
                    outcomes, cache >>

\* await cacheResult(analysisId, result), fs.writeFile opens the file; when
\* it cannot (no directory, no permission) the error is only logged
CacheWriteOpens ==
    /\ pc = "awaitCacheOpen"
    /\ \E opened \in BOOLEAN :
        IF opened
        THEN /\ cache' = OpenTruncate(cache, context.analysisId)
             /\ pc' = "awaitCacheWrite"
             /\ UNCHANGED << response, inflight >>
        ELSE /\ cache' = cache
             /\ Respond(200, context.result)
    /\ UNCHANGED << variant, parked, useCache, req, reqCount, calls, state, i,
                    diagnosis, outcomes, context, received,
                    answers >>

\* fs.writeFile writes the data and cacheResult settles
CacheWriteReturns ==
    /\ pc = "awaitCacheWrite"
    /\ cache' = WriteData(cache, context.analysisId, Stringify(context.result))
    /\ Respond(200, context.result)
    /\ UNCHANGED << variant, parked, useCache, req, reqCount, calls, state, i,
                    diagnosis, outcomes, context, received,
                    answers >>

----
\* The single-call handlers (src/app.js, both servers, and src/app2.js)

AgentPrompts == {"AGENT", "KNOWLEDGE_BASE", "CONVERSATION"}

\* What the handler does before its LLM call: << status, message >> of the
\* response it sends, or << 0, "" >> when it goes on to the call.  Reading
\* a property of configuredPrompts when it is undefined throws a TypeError,
\* which the handler's catch answers with 500.
SimpleValidation(v, body) ==
    IF \/ Falsy(body, "conversationHistory")
       \/ Falsy(body, "targetBotResponse")
       \/ Falsy(body, "userFeedback")
       \/ v = "app" /\ Falsy(body, "configuredPrompts")
    THEN << 400, "Missing required fields" >>
    ELSE IF v = "app2"
    THEN IF Falsy(body, "dc_node_prompt")
         THEN << 400, "Missing required DC Node prompt." >>
         ELSE << 0, "" >>
    ELSE IF Falsy(body, "configuredPrompts")
    THEN << 500, "TypeError" >>
    ELSE IF v = "app" \/ body.isAgenticBot
    THEN IF AgentPrompts \subseteq body.configuredPrompts
         THEN << 0, "" >>
         ELSE << 400, "Missing required prompts" >>
    ELSE IF "SYSTEM_PROMPT" \in body.configuredPrompts
         THEN << 0, "" >>
         ELSE << 400, "Missing required SYSTEM_PROMPT for NLP Bot" >>

SimpleReceive ==
    /\ variant \in {"app", "app_bot", "app2"}
    /\ pc = "idle"
    /\ reqCount < RequestsOf(variant)
    /\ \E body \in Incoming :
        /\ body.present \subseteq FieldsOf(variant)
        /\ req' = body
        /\ reqCount' = reqCount + 1
        /\ LET checked == SimpleValidation(variant, body)
           IN  IF checked[1] # 0
               THEN /\ Respond(checked[1],
                                IF checked[1] = 500 THEN ErrorBody(checked[2])
                                ELSE [ error |-> checked[2] ])
                    /\ calls' = << >>
               ELSE /\ inflight' = [ step |-> "analysis",
                                     prompt |-> body.dc_node_prompt,
                                     history |-> body.conversationHistory ]
                    /\ calls' = << "analysis" >>
                    /\ pc' = "awaitAnalysis"
                    /\ response' = NoResponse
    /\ LoopAtRest
    /\ received' = NoReceived
    /\ answers' = << >>
    /\ UNCHANGED << variant, parked, useCache, cache, context >>

\* A completion of the single call: text with a {...} span that is JSON,
\* with a {...} span that is not, or without braces
AnalysisCompletions == {"json", "braces", "text"}

\* analysisString.match(/\{[\s\S]*\}/), then JSON.parse, else throw
validateAnalysisResponse(analysisString) ==
    IF analysisString = "json" THEN Returned("report")
    ELSE IF analysisString = "braces" THEN Thrown("SyntaxError")
    ELSE Thrown("LLM response is not valid JSON")

\* await analyzeLLMPrompt(analysisPrompt) settles
AnalysisReturns ==
    /\ pc = "awaitAnalysis"
    /\ \E r \in Settlements(AnalysisCompletions) :
        /\ received' = r
        /\ answers' = answers
        /\ LET res == IF r.threw THEN r ELSE validateAnalysisResponse(r.value)
           IN  IF res.threw
               THEN Respond(500, ErrorBody(res.message))
               ELSE Respond(200, res.value)
    /\ UNCHANGED << variant, parked, useCache, req, reqCount, calls, state, i,
                    diagnosis, outcomes, cache, context >>

----
\* The server

Init ==
    /\ variant \in Variants
    /\ useCache \in BOOLEAN
    /\ pc = "idle"
    /\ req = NoBody
    /\ reqCount = 0
    /\ response = NoResponse
    /\ calls = << >>
    /\ inflight = NoCall
    /\ state = NoState
    /\ i = 0
    /\ diagnosis = NoDiagnosis
    /\ outcomes = << >>
    /\ cache = {}
    /\ context = NoContext
    /\ received = NoReceived
    /\ answers = << >>
    /\ parked = NoPeer

Next ==
    \/ AgenticReceive
    \/ DiagnosisRejects
    \/ DiagnosisReturns
    \/ ValidationReturns
    \/ StepsReceive
    \/ CacheReadReturns
    \/ StepReturns
    \/ CacheWriteOpens
    \/ CacheWriteReturns
    \/ SimpleReceive
    \/ AnalysisReturns

Spec == Init /\ [][Next]_vars

\* AgenticFramework.analyze alone, with every LLM call settling (the
\* completion arrives or the call is rejected): a suspended analyze is resumed
LoopInit == Init /\ variant = "agentic"

LoopNext ==
    \/ AgenticReceive
    \/ DiagnosisRejects
    \/ DiagnosisReturns
    \/ ValidationReturns

LoopSpec ==
    /\ LoopInit
    /\ [][LoopNext]_vars
    /\ WF_vars(DiagnosisRejects)
    /\ WF_vars(DiagnosisReturns)
    /\ WF_vars(ValidationReturns)

----
\* Two requests at a time (src/draft5.js, both servers)

\* what a handler's invocation holds: its locals and its position
Frame ==
    [ pc |-> pc, req |-> req, response |-> response, calls |-> calls,
      inflight |-> inflight, state |-> state, i |-> i, diagnosis |-> diagnosis,
      outcomes |-> outcomes, context |-> context, received |-> received,
      answers |-> answers ]

\* no request before this one
IdleFrame ==
    [ pc |-> "idle", req |-> NoBody, response |-> NoResponse, calls |-> << >>,
      inflight |-> NoCall, state |-> NoState, i |-> 0, diagnosis |-> NoDiagnosis,
      outcomes |-> << >>, context |-> NoContext, received |-> NoReceived,
      answers |-> << >> ]

\* one state object for all the calls of analyze
SharedState(frame) == state

\* let state = {...} in analyze: each call has its own
OwnState(frame) == frame.state

\* The event loop turns to the other request: what settles next, or is
\* received next, belongs to it.  The cache directory is the one thing the
\* two handlers share.
Switch ==
    /\ parked.pc # "absent"
    /\ parked' = Frame
    /\ pc' = parked.pc
    /\ req' = parked.req
    /\ response' = parked.response
    /\ calls' = parked.calls
    /\ inflight' = parked.inflight
    /\ state' = OwnState(parked)
    /\ i' = parked.i
    /\ diagnosis' = parked.diagnosis
    /\ outcomes' = parked.outcomes
    /\ context' = parked.context
    /\ received' = parked.received
    /\ answers' = parked.answers
    /\ UNCHANGED << variant, useCache, reqCount, cache >>

ConcInit ==
    /\ variant \in {"agentic", "steps"}
    /\ useCache \in BOOLEAN
    /\ reqCount = 0
    /\ cache = {}
    /\ pc = "idle"
    /\ req = NoBody
    /\ response = NoResponse
    /\ calls = << >>
    /\ inflight = NoCall
    /\ state = NoState
    /\ i = 0
    /\ diagnosis = NoDiagnosis
    /\ outcomes = << >>
    /\ context = NoContext
    /\ received = NoReceived
    /\ answers = << >>
    /\ parked = IdleFrame

ConcNext ==
    \/ AgenticReceive
    \/ DiagnosisReturns
    \/ ValidationReturns
    \/ StepsReceive
    \/ CacheReadReturns
    \/ StepReturns
    \/ CacheWriteOpens
    \/ CacheWriteReturns
    \/ Switch

ConcSpec == ConcInit /\ [][ConcNext]_vars

----
\* The agents' operations called on their own

SampleLines ==
    { Blank, Ln("W", 2), Ln("T", 30), Ln("N", 300), Ln("I", 12), Ln("E", 1),
      Ln("E", 250), Marker }

Texts == SeqsUpTo(SampleLines, MaxLines) \ { << >> }

\* the variables of the handlers stay at rest
HandlersAtRest ==
    /\ useCache = FALSE
    /\ pc = "idle"
    /\ reqCount = 0
    /\ calls = << >>
    /\ inflight = NoCall
    /\ diagnosis = NoDiagnosis
    /\ outcomes = << >>
    /\ cache = {}
    /\ context = NoContext
    /\ received = NoReceived
    /\ answers = << >>
    /\ parked = NoPeer

\* state.dc_node_prompt = this.optimizer.compressPrompt(...), called once
\* more on the text it returned
Compress ==
    /\ variant = "optimizer"
    /\ i < MaxPasses
    /\ state' = [ state EXCEPT !.dc_node_prompt = compressPrompt(@) ]
    /\ i' = i + 1
    /\ UNCHANGED << variant, parked, useCache, pc, req, reqCount, response, calls,
                    inflight, diagnosis, outcomes, cache, context, received,
                    answers >>

\* the arguments of a call of compressPrompt, and the strategies that
\* raise in it
CompressCalls ==
    [ prompt : Texts, raising : SUBSET { strategies[k] : k \in DOMAIN strategies } ]

\* this.optimizer.compressPrompt(prompt) returns
CompressOnce ==
    /\ variant = "compression"
    /\ response = NoResponse
    /\ response' = Returned(CompressFrom(1, req.prompt, req.raising))
    /\ UNCHANGED << variant, parked, useCache, pc, req, reqCount, calls, inflight, state,
                    i, diagnosis, outcomes, cache, context, received,
                    answers >>

\* model_configuration.max_tokens of a request, and the default
MaxTokensValues == {1, 3, 5, DefaultMaxTokens}

\* reserved amounts: small ones, the 1500 of buildAnalysisPrompt, and the
\* ones next to the budget
ReservedValues(max_tokens) ==
    { r \in {0, 1, 2, 1500, calculateTokenBudget(max_tokens) - 1,
             calculateTokenBudget(max_tokens)} : r >= 0 }

Contents == SeqsUpTo(Characters, MaxChars)

\* the arguments of the call of truncateToFit, with the max_tokens of its
\* context manager
TruncateCalls ==
    { c \in [ content : Contents, reservedTokens : 0 .. DefaultMaxTokens,
              max_tokens : MaxTokensValues ] :
        c.reservedTokens \in ReservedValues(c.max_tokens) }

\* this.contextManager.truncateToFit(content, reservedTokens) returns or raises
Truncate ==
    /\ variant = "contextManager"
    /\ response = NoResponse
    /\ \E out \in truncateToFit(req.content, req.reservedTokens, req.max_tokens) :
        response' = out
    /\ UNCHANGED << variant, parked, useCache, pc, req, reqCount, calls, inflight, state,
                    i, diagnosis, outcomes, cache, context, received,
                    answers >>

\* modifications a diagnosis can hold for PromptA: of one of its lines, of
\* its last line, of the whole of it
SurgeonModifications ==
    Modifications
    \cup { [ target |-> "dc_node_prompt", current |-> PromptA, updated |-> UpdatedB ],
           [ target |-> "dc_node_prompt", current |-> UpdatedB,
             updated |-> << Ln("T", 40) >> ] }

\* the arguments of the call of applyModifications
SurgeonCalls ==
    [ originalPrompt : { PromptA, UpdatedB },
      modifications : SeqsUpTo(SurgeonModifications, MaxMods) ]

\* this.promptSurgeon.applyModifications(originalPrompt, modifications) returns
ApplyModifications ==
    /\ variant = "promptSurgeon"
    /\ response = NoResponse
    /\ response' = Returned(applyModifications(req.originalPrompt, req.modifications))
    /\ UNCHANGED << variant, parked, useCache, pc, req, reqCount, calls, inflight, state,
                    i, diagnosis, outcomes, cache, context, received,
                    answers >>

\* The text of a completion, for the cleaning of it: braces, other text,
\* white space, "F" for a fence of three backticks, "J" for the word json
RawCharacters == {"{", "}", "x", " ", "F", "J"}

RawTexts == SeqsUpTo(RawCharacters, MaxChars)

\* the places of ch in text
Places(text, ch) == { k \in 1 .. Len(text) : text[k] = ch }

Lowest(places) == CHOOSE k \in places : \A h \in places : k <= h
Highest(places) == CHOOSE k \in places : \A h \in places : k >= h

\* text[from .. to]
Span(text, from, to) == [ k \in 1 .. (to - from + 1) |-> text[from + k - 1] ]

\* text without the run of ch at its start and the run of ch at its end
RECURSIVE Strip(_, _)
Strip(text, ch) ==
    IF text # << >> /\ Head(text) = ch THEN Strip(Tail(text), ch)
    ELSE IF text # << >> /\ text[Len(text)] = ch
    THEN Strip(Take(text, Len(text) - 1), ch)
    ELSE text

\* rawResponse.match(/```(?:json)?([\s\S]*?)```/): group 1 of the leftmost
\* match, << >> when it is empty, and whether there is a match at all
codeBlockMatch(rawResponse) ==
    LET fences == Places(rawResponse, "F")
    IN  IF Cardinality(fences) < 2 THEN [ matched |-> FALSE, group |-> << >> ]
        ELSE LET open == Lowest(fences)
                 close == Lowest(fences \ {open})
                 from == IF rawResponse[open + 1] = "J" THEN open + 2 ELSE open + 1
             IN  [ matched |-> TRUE, group |-> Span(rawResponse, from, close - 1) ]

\* callLLM after its await: the block inside the first fence when there is
\* a non-empty one, trimmed; then backticks at both ends are removed, and
\* the text is trimmed
cleanResponse(rawResponse) ==
    LET block == codeBlockMatch(rawResponse)
        inner == IF block.matched /\ block.group # << >>
                 THEN Strip(block.group, " ") ELSE rawResponse
    IN  Returned(Strip(Strip(inner, "F"), " "))

\* src/app2.js validateAnalysisResponse: analysisString.match(/\{[\s\S]*\}/),
\* the text from the first { to the last } handed to JSON.parse, or the
\* throw when there is no match
jsonMatch(analysisString) ==
    LET opens == Places(analysisString, "{")
        closes == Places(analysisString, "}")
    IN  IF opens # {} /\ closes # {} /\ Lowest(opens) < Highest(closes)
        THEN Returned(Span(analysisString, Lowest(opens), Highest(closes)))
        ELSE Thrown("LLM response is not valid JSON")

\* the completions handed to the cleaning of callLLM and to the match of
\* validateAnalysisResponse
ExtractCalls == [ raw : RawTexts, by : {"callLLM", "validateAnalysisResponse"} ]

\* the cleaning of the completion returns or raises
Extract ==
    /\ variant = "extraction"
    /\ response = NoResponse
    /\ response' = IF req.by = "callLLM" THEN cleanResponse(req.raw)
                   ELSE jsonMatch(req.raw)
    /\ UNCHANGED << variant, parked, useCache, pc, req, reqCount, calls, inflight, state,
                    i, diagnosis, outcomes, cache, context, received,
                    answers >>

\* bodies of requests that pass the handler's checks
FingerprintBodies ==
    [ conversationHistory : SeqsUpTo({1, 2}, MaxTurns),
      targetBotResponse : {"reply"},
      userFeedback : {"reply", "feedback"},
      dc_node_prompt : {PromptA, UpdatedB} ]

\* const analysisId = generateAnalysisId(conversationHistory, targetBotResponse,
\* userFeedback) for the bodies of two requests
Fingerprint ==
    /\ variant = "fingerprint"
    /\ response = NoResponse
    /\ response' = Returned([ j \in {1, 2} |->
                      generateAnalysisId(req[j].conversationHistory,
                                         req[j].targetBotResponse, req[j].userFeedback) ])
    /\ UNCHANGED << variant, parked, useCache, pc, req, reqCount, calls, inflight, state,
                    i, diagnosis, outcomes, cache, context, received,
                    answers >>

UnitInit ==
    /\ HandlersAtRest
    /\ i = 0
    /\ response = NoResponse
    /\ variant \in {"optimizer", "contextManager", "promptSurgeon", "fingerprint",
                    "extraction", "compression"}
    /\ CASE variant = "optimizer" ->
              /\ req = NoBody
              /\ \E text \in Texts : state = [ NoState EXCEPT !.dc_node_prompt = text ]
         [] variant = "contextManager" ->
              /\ req \in TruncateCalls
              /\ state = NoState
         [] variant = "promptSurgeon" ->
              /\ req \in SurgeonCalls
              /\ state = NoState
         [] variant = "fingerprint" ->
              /\ req \in FingerprintBodies \X FingerprintBodies
              /\ state = NoState
         [] variant = "extraction" ->
              /\ req \in ExtractCalls
              /\ state = NoState
         [] variant = "compression" ->
              /\ req \in CompressCalls
              /\ state = NoState

UnitNext ==
    \/ Compress
    \/ Truncate
    \/ ApplyModifications
    \/ Fingerprint
    \/ Extract
    \/ CompressOnce

UnitSpec == UnitInit /\ [][UnitNext]_vars

----
\* Properties

Last(q) == q[Len(q)]
llmCalls == Len(calls)
Suspended == pc \in {"diagnosisRejected", "awaitDiagnosis", "awaitValidation"}
IterationsStarted == Len(outcomes) + IF Suspended THEN 1 ELSE 0
FailedEnds == {"diagnosis_failed", "patch_failed", "validation_failed"}
Succeeded ==
    /\ variant = "agentic" /\ pc = "idle"
    /\ response.code = 200 /\ response.body.status = "success"
Exhausted ==
    /\ variant = "agentic" /\ pc = "idle"
    /\ response.code = 422 /\ response.body.status = "max_iterations_reached"

\* C1: analyze starts at most 3 iterations per request, whatever the
\* verdicts and the failures of the steps are.
C1_AtMostThreeIterations ==
    /\ IterationsStarted <= 3
    /\ Len(SelectSeq(calls, LAMBDA c : c = "diagnosis")) <= 3

C1_Witness ==
    /\ Exhausted
    /\ Len(outcomes) = 3
    /\ \A k \in 1 .. 3 : outcomes[k].end = "retry"

\* C2: once analyze is under way it eventually returns, and what it
\* returns is Succeeded or Exhausted, given that every LLM call settles.
C2_AnalyzeTerminates == Suspended ~> (Succeeded \/ Exhausted)

C2_Witness ==
    /\ Exhausted
    /\ Len(outcomes) = 3
    /\ outcomes[1].end = "diagnosis_failed"
    /\ outcomes[2].end = "validation_failed"
    /\ outcomes[3].end = "retry"

\* C3: a verdict with confidence >= 0.85 in iteration 1 ends the request
\* in Succeeded after that one iteration, with iteration count 1 and a
\* single diagnosis call.
C3_AcceptedInFirstIteration ==
    (variant = "agentic" /\ outcomes # << >> /\ outcomes[1].confidence >= 85)
        => /\ Len(outcomes) = 1
           /\ Succeeded
           /\ response.body.iterations = 1
           /\ calls = << "diagnosis", "validation" >>

C3_Witness ==
    /\ Succeeded
    /\ Len(outcomes) = 1
    /\ outcomes[1].confidence = 85

\* C4: an iteration ends in Succeeded exactly when its verdict has
\* confidence >= 0.85, and a Succeeded result carries such a verdict.
C4_SucceededIffConfident ==
    /\ \A k \in 1 .. Len(outcomes) :
          /\ (outcomes[k].end = "accepted") <=> (outcomes[k].confidence >= 85)
          /\ outcomes[k].end = "accepted" => k = Len(outcomes)
    /\ (variant = "agentic" /\ response.code = 200)
          => /\ response.body.status = "success"
             /\ response.body.validation.confidence >= 85
             /\ outcomes # << >>
             /\ Last(outcomes).end = "accepted"
    /\ (outcomes # << >> /\ Last(outcomes).end = "accepted") => Succeeded

C4_Witness ==
    /\ Succeeded
    /\ Len(outcomes) = 2
    /\ outcomes[1].end = "retry" /\ outcomes[1].confidence = 84
    /\ outcomes[2].confidence = 85

\* the properties of the body that hold the request's mandatory parts
Mandatory(v) ==
    {"conversationHistory", "targetBotResponse", "userFeedback"}
      \cup (IF v \in {"app", "app_bot"} THEN {"configuredPrompts"}
            ELSE {"dc_node_prompt"})

\* C5: a request that lacks the conversation history, the target response,
\* the feedback or the governing prompt is answered with 400 and without a
\* single LLM invocation, in every handler variant.
C5_MissingFieldIsRequestError ==
    (reqCount > 0 /\ ~(Mandatory(variant) \subseteq req.present))
        => /\ llmCalls = 0
           /\ pc = "idle"
           /\ response.code = 400

ErrorThenAccepted ==
    /\ variant = "agentic"
    /\ Len(outcomes) = 2
    /\ outcomes[1].end \in FailedEnds /\ outcomes[1].error = "ServiceError"
    /\ outcomes[2].end = "accepted"

\* C7: after a ServiceError in iteration 1 and an accepted iteration 2 the
\* result is Succeeded and has no last error in it.
C7_SuccessCarriesNoError ==
    ErrorThenAccepted
        => /\ Succeeded
           /\ DOMAIN response.body =
                {"status", "analysis", "modified_prompt", "validation",
                 "iterations", "tokens_used"}

C7_Witness ==
    /\ ErrorThenAccepted
    /\ state.lastError = "ServiceError"
    /\ Succeeded

\* C8: after a ServiceError in iteration 1 and an accepted iteration 2 the
\* result reports 2 iterations.
C8_FailedIterationIsCounted ==
    ErrorThenAccepted => (Succeeded /\ response.body.iterations = 2)

\* C9: an exception inside an iteration is recorded as last error and ends
\* that iteration only: the next one starts if fewer than 3 have been
\* started, else the request ends Exhausted with that error; the loop
\* variable counts the failed iteration.
C9_ExceptionEndsIterationOnly ==
    [][ (Len(outcomes') = Len(outcomes) + 1 /\ Last(outcomes').end \in FailedEnds)
          => /\ state'.lastError = Last(outcomes').error
             /\ state'.lastError # Undefined
             /\ i' = i + 1
             /\ Len(outcomes') = i'
             /\ IF Len(outcomes') < 3
                THEN /\ pc' \in {"awaitDiagnosis", "diagnosisRejected"}
                     /\ response' = NoResponse
                     /\ calls' = IF pc' = "awaitDiagnosis"
                                 THEN Append(calls, "diagnosis") ELSE calls
                ELSE /\ pc' = "idle"
                     /\ response'.code = 422
                     /\ response'.body.status = "max_iterations_reached"
                     /\ response'.body.last_error = state'.lastError
                     /\ calls' = calls ]_vars

C9_Witness ==
    /\ pc = "awaitDiagnosis"
    /\ Len(outcomes) = 2
    /\ outcomes[1].end = "patch_failed"
    /\ outcomes[2].end = "validation_failed"
    /\ state.lastError = "ServiceError"

\* C10: after an iteration that ended with a verdict below the threshold,
\* the next diagnosis call is sent the text that iteration produced (the
\* compressed result of its patches), which is also the text it validated.
C10_NextDiagnosisSeesPatchedPrompt ==
    [][ /\ (pc = "awaitDiagnosis" /\ pc' = "awaitValidation")
            => /\ state'.dc_node_prompt =
                    compressPrompt(applyModifications(inflight.prompt, diagnosis'.mods))
               /\ inflight'.prompt = state'.dc_node_prompt
        /\ (pc = "awaitValidation" /\ pc' = "awaitDiagnosis"
              /\ Last(outcomes').end = "retry")
            => /\ inflight'.step = "diagnosis"
               /\ inflight'.prompt = inflight.prompt
               /\ inflight'.prompt = state.dc_node_prompt ]_vars

C10_Witness ==
    /\ pc = "awaitDiagnosis"
    /\ Len(outcomes) = 1
    /\ outcomes[1].end = "retry"
    /\ inflight.prompt # req.dc_node_prompt
    /\ inflight.prompt = compressPrompt(UpdatedB)

\* C11: an Exhausted result reports the maximum, 3, as its iteration count.
C11_ExhaustedReportsMaximum ==
    Exhausted => response.body.iterations = maxIterations

\* the iterations of this request that raised, in order
RaisedEnds == SelectSeq(outcomes, LAMBDA o : o.end \in FailedEnds)

\* C12: an Exhausted result carries the current prompt text, the iteration
\* count, the sum of the token usage and, as last error, the message of the
\* most recent iteration that raised; it reports no error when none raised.
C12_ExhaustedCarriesStateAndLastError ==
    Exhausted
        => /\ response.body.final_prompt = state.dc_node_prompt
           /\ response.body.iterations = state.iteration
           /\ response.body.tokens_used = Sum(state.tokenUsage)
           /\ IF RaisedEnds # << >>
              THEN /\ "last_error" \in DOMAIN response.body
                   /\ response.body.last_error = Last(RaisedEnds).error
              ELSE "last_error" \notin DOMAIN response.body

\* a validation completion that is not JSON as it stands, or is JSON but
\* lacks the boolean valid or a confidence between 0 and 1
IllFormedVerdict(c) ==
    \/ c.fenced
    \/ c.kind # "json"
    \/ ~c.hasValid
    \/ c.confidence < 0
    \/ c.confidence > 100

\* C13: whatever text the validation call returns, the iteration gets a
\* verdict and no error is recorded; the verdict's confidence lies in
\* [0,1], and for a text that is not JSON or violates the verdict schema it
\* is the default verdict (valid false, confidence 0).
C13_IllFormedVerdictBecomesDefault ==
    [][ (pc = "awaitValidation" /\ ~received'.threw)
          => /\ Len(outcomes') = Len(outcomes) + 1
             /\ Last(outcomes').end \in {"accepted", "retry"}
             /\ Last(outcomes').confidence \in 0 .. 100
             /\ state'.lastError = state.lastError
             /\ IllFormedVerdict(received'.value)
                  => /\ Last(outcomes').end = "retry"
                     /\ Last(outcomes').confidence = 0
                     /\ ~Last(outcomes').valid
                     /\ Last(state'.tokenUsage) = 0 ]_vars

C13_Witness ==
    /\ pc = "awaitDiagnosis"
    /\ Len(outcomes) = 1
    /\ outcomes[1].end = "retry"
    /\ received.value.hasValid /\ received.value.confidence = 150
    /\ outcomes[1].confidence = 0
    /\ state.lastError = Undefined

\* C14: however the validation LLM call settles (a completion, a malformed
\* completion, or the call failing), the iteration ends with a verdict and
\* no error is recorded for it.
C14_ValidateAlwaysGivesVerdict ==
    [][ pc = "awaitValidation"
          => /\ Len(outcomes') = Len(outcomes) + 1
             /\ Last(outcomes').end \in {"accepted", "retry"}
             /\ state'.lastError = state.lastError ]_vars

\* C15: compressPrompt called on a text it returned gives that text back.
C15_CompressIsIdempotent ==
    [][ (variant = "optimizer" /\ i >= 1)
          => state'.dc_node_prompt = state.dc_node_prompt ]_vars


\* C16: for a reserved amount r with 0 <= r <= budget(), the text that
\* truncateToFit returns encodes to at most budget() - r tokens, and a text
\* that already does is returned as it is.
C16_TruncateToFitStaysInBudget ==
    ( /\ variant = "contextManager"
      /\ response # NoResponse
      /\ req.reservedTokens <= calculateTokenBudget(req.max_tokens) )
        => LET limit == calculateTokenBudget(req.max_tokens) - req.reservedTokens
           IN  /\ ~response.threw => Len(encode(response.value)) <= limit
               /\ Len(encode(req.content)) <= limit
                    => response = Returned(req.content)

C16_Witness ==
    /\ variant = "contextManager"
    /\ response # NoResponse
    /\ ~response.threw
    /\ req.content = << "a", "b", "a", "U" >>
    /\ req.max_tokens = 3 /\ req.reservedTokens = 1
    /\ response.value = << "a", "b", "a" >>

\* the place of the first occurrence of the lines part in text, 0 for none
Occurrence(text, part) ==
    LET places == { p \in 1 .. (Len(text) - Len(part) + 1) :
                      SubSeq(text, p, p + Len(part) - 1) = part }
    IN  IF places = {} THEN 0 ELSE CHOOSE p \in places : \A h \in places : p <= h

\* text with the first occurrence of current replaced by updated
Replace(text, current, updated) ==
    LET p == Occurrence(text, current)
    IN  Take(text, p - 1) \o updated \o Drop(text, p + Len(current) - 1)

\* every modification finds its current text in the accumulator it meets
RECURSIVE Applicable(_, _)
Applicable(acc, modifications) ==
    \/ modifications = << >>
    \/ /\ Occurrence(acc, Head(modifications).current) > 0
       /\ Applicable(Replace(acc, Head(modifications).current, Head(modifications).updated),
                     Tail(modifications))

\* the left-to-right fold in which every modification replaces its current text
RECURSIVE ReplaceAll(_, _)
ReplaceAll(acc, modifications) ==
    IF modifications = << >> THEN acc
    ELSE ReplaceAll(Replace(acc, Head(modifications).current, Head(modifications).updated),
                    Tail(modifications))

\* C20: applyModifications folds the list from the left, each modification
\* replacing its current text by its updated text inside the accumulator
\* and leaving the rest of the accumulated prompt as it is.
C20_ModificationsReplaceTheirCurrentText ==
    ( /\ variant = "promptSurgeon"
      /\ response # NoResponse
      /\ Applicable(req.originalPrompt, req.modifications) )
        => response = Returned(ReplaceAll(req.originalPrompt, req.modifications))

\* C17: a completion of a diagnosis step that is not JSON once the fence is
\* stripped does not make the step raise: it is recorded as an error-flagged
\* placeholder and the request goes on (the next step's call is issued in
\* the step pipeline; no diagnosis failure ends the iteration in analyze).
C17_MalformedDiagnosisIsRecordedNotRaised ==
    [][ /\ ( /\ pc = "awaitStep" /\ inflight.step # "finalResponse"
             /\ ~received'.threw /\ received'.value.kind = "garbage" )
            => /\ inflight.step \in context'.failedSteps
               /\ pc' = "awaitStep"
               /\ response' = NoResponse
               /\ calls' = Append(calls, inflight'.step)
        /\ ( /\ pc = "awaitDiagnosis"
             /\ ~received'.threw /\ received'.value.kind = "garbage" )
            => /\ state'.lastError = state.lastError
               /\ ~( /\ Len(outcomes') = Len(outcomes) + 1
                     /\ Last(outcomes').end = "diagnosis_failed" ) ]_vars

\* C18: a diagnosis completion that is JSON but violates the diagnosis
\* schema is handed to the orchestrator as parsed, without an error: it
\* does not end the iteration as a failed diagnosis.
C18_SchemaViolationIsNotFatal ==
    [][ ( /\ pc = "awaitDiagnosis"
          /\ ~received'.threw /\ received'.value.kind = "invalid" )
          => /\ state'.lastError # "Response validation failed"
             /\ ~( /\ Len(outcomes') = Len(outcomes) + 1
                   /\ Last(outcomes').end = "diagnosis_failed" ) ]_vars

\* the sampling parameters callLLM is to use, by step name
ExpectedSampling(stepName) ==
    CASE stepName = "problemAnalysis" -> << 20, 1500 >>
      [] stepName = "rootCauseAnalysis" -> << 10, 2000 >>
      [] stepName = "solutionGeneration" -> << 70, 2500 >>
      [] stepName = "solutionValidation" -> << 10, 1500 >>
      [] stepName = "solutionRefinement" -> << 30, 2000 >>
      [] OTHER -> << 50, 2000 >>

\* C19: every invocation of callLLM sends one request to the service, with
\* the sampling parameters of its step (the default ones for a step name
\* the table lacks); when the service call fails the error goes to the
\* caller and no second request is sent.
C19_OneServiceCallPerInvocation ==
    [][ variant = "steps"
          => /\ (calls' # calls /\ calls' # << >>)
                  => /\ calls' = Append(calls, inflight'.step)
                     /\ pc' = "awaitStep"
                     /\ << inflight'.temperature, inflight'.max_tokens >>
                            = ExpectedSampling(inflight'.step)
             /\ (pc = "awaitStep" /\ received'.threw)
                  => /\ calls' = calls
                     /\ inflight' = NoCall
                     /\ pc' = "idle"
                     /\ response'.code = 500
                     /\ response'.body.details = received'.message ]_vars

C19_Witness ==
    /\ variant = "steps" /\ pc = "idle"
    /\ received.threw
    /\ Len(calls) = 6 /\ Last(calls) = "finalResponse"
    /\ response.code = 500

\* messages that name the modification that failed
PatchApplicationErrors ==
    { "PatchApplicationError: modification 1", "PatchApplicationError: modification 2",
      "PatchApplicationError: modification 3" }

\* C21: a diagnosis with a modification whose current text is not found in
\* the accumulated prompt makes applyModifications raise an error that
\* names the modification; the iteration ends as a failed patch and the
\* orchestrator's prompt stays as it was.
C21_UnlocatedModificationFailsTheBatch ==
    [][ ( /\ pc = "awaitDiagnosis"
          /\ ~received'.threw
          /\ received'.value.kind = "ok" /\ received'.value.hasMods
          /\ ~Applicable(state.dc_node_prompt, received'.value.mods) )
          => /\ Len(outcomes') = Len(outcomes) + 1
             /\ Last(outcomes').end = "patch_failed"
             /\ Last(outcomes').error \in PatchApplicationErrors
             /\ state'.dc_node_prompt = state.dc_node_prompt ]_vars

\* C22: a cache entry, once written, is never overwritten or changed by a
\* later request with the same fingerprint.
C22_CacheEntryIsWrittenOnce ==
    [][ \A e \in cache : ~Parse(e.file).threw => e \in cache' ]_vars

\* the last two turns of a conversation, in order (all of it when shorter)
Latest(conversationHistory) ==
    SubSeq(conversationHistory,
           IF Len(conversationHistory) > 2 THEN Len(conversationHistory) - 1 ELSE 1,
           Len(conversationHistory))

\* C24: two requests that agree on the last two turns, the target response
\* and the feedback get the same fingerprint, whatever their earlier turns
\* and their governing prompt are; when the last two turns differ and are
\* swapped, the content that is hashed differs.
C24_FingerprintOfLatestTurnsOnly ==
    (variant = "fingerprint" /\ response # NoResponse)
        => /\ ( /\ Latest(req[1].conversationHistory) = Latest(req[2].conversationHistory)
                /\ req[1].targetBotResponse = req[2].targetBotResponse
                /\ req[1].userFeedback = req[2].userFeedback )
              => response.value[1] = response.value[2]
           /\ ( /\ Len(req[1].conversationHistory) >= 2
                /\ Len(req[2].conversationHistory) >= 2
                /\ Latest(req[1].conversationHistory)[1] # Latest(req[1].conversationHistory)[2]
                /\ Latest(req[2].conversationHistory)
                     = << Latest(req[1].conversationHistory)[2],
                          Latest(req[1].conversationHistory)[1] >> )
              => AnalysisContent(req[1].conversationHistory, req[1].targetBotResponse,
                                 req[1].userFeedback)
                   # AnalysisContent(req[2].conversationHistory, req[1].targetBotResponse,
                                     req[1].userFeedback)

C24_Witness ==
    /\ variant = "fingerprint"
    /\ response # NoResponse
    /\ req[1].conversationHistory = << 1, 2 >>
    /\ req[2].conversationHistory = << 2, 1, 2 >>
    /\ req[1].dc_node_prompt # req[2].dc_node_prompt
    /\ req[1].userFeedback = req[2].userFeedback
    /\ response.value[1] = response.value[2]

\* the handler f has a put for the id under way: the file is open and not
\* yet written
PutUnderWay(f, analysisId) ==
    f.pc = "awaitCacheWrite" /\ f.context.analysisId = analysisId

\* C23: with two requests of the same fingerprint at a time, a get that
\* falls between the steps of a put gives a complete result or nothing, and
\* once the puts are over the entry is the complete result of one of them
\* (the JSON text of one result, whole).
C23_ConcurrentPutsLeaveOneResult ==
    (variant = "steps" /\ Concurrent)
        => \A e \in cache :
              /\ getCachedResult(cache, e.id) # JsonNull
                    => e.file = Stringify(getCachedResult(cache, e.id))
              /\ (~PutUnderWay(Frame, e.id) /\ ~PutUnderWay(parked, e.id))
                    => \E v \in JsonValues : e.file = Stringify(v)


C26_StatusFollowsOutcome ==
    (variant = "agentic" /\ reqCount > 0 /\ pc = "idle")
        => LET body == response.body
               accepted == outcomes # << >> /\ Last(outcomes).end = "accepted"
               missing == ~(Mandatory(variant) \subseteq req.present)
           IN  /\ response.code \in {200, 422, 400, 500}
               /\ response.code = 200
                    <=> ("status" \in DOMAIN body /\ body.status = "success")
               /\ response.code = 200 <=> accepted
               /\ response.code = 422
                    <=> ("status" \in DOMAIN body
                            /\ body.status = "max_iterations_reached")
               /\ response.code = 422 => (~accepted /\ ~LoopContinues(i))
               /\ missing => response.code = 400

\* the loop ran out after a verdict below the threshold and 422 was sent
C26_Witness ==
    /\ variant = "agentic" /\ pc = "idle"
    /\ response.code = 422
    /\ response.body.status = "max_iterations_reached"
    /\ Last(outcomes).end = "retry"


\* C27: within a request of the agentic handler the steps of an iteration
\* run in the order diagnosis, patch, compression, validation: the validation
\* call is issued only by the step that receives the diagnosis, for the
\* patched and compressed prompt; one LLM call at most is in flight (a call
\* is issued only by the step that receives the request or settles the call
\* before it); and the diagnosis of the next iteration is issued only by the
\* step that ends the iteration before it.
C27_StepsRunInOrder ==
    [][ variant = "agentic"
          => /\ pc' = "awaitValidation"
                  => /\ pc = "awaitDiagnosis"
                     /\ ~received'.threw
                     /\ state'.dc_node_prompt
                          = compressPrompt(applyModifications(
                                state.dc_node_prompt,
                                validateResponse(received'.value).value.mods))
                     /\ inflight' = [ step |-> "validation",
                                      prompt |-> state'.dc_node_prompt,
                                      history |-> << >> ]
                     /\ calls' = Append(calls, "validation")
                     /\ outcomes' = outcomes
             /\ pc' \in {"awaitDiagnosis", "diagnosisRejected"}
                  => \/ pc = "idle" /\ outcomes' = << >> /\ i' = 0
                     \/ /\ pc # "idle"
                        /\ Len(outcomes') = Len(outcomes) + 1
                        /\ i' = i + 1
             /\ pc' = "awaitDiagnosis"
                  => /\ calls' = Append(calls, "diagnosis")
                     /\ inflight'.step = "diagnosis"
             /\ pc' \notin {"awaitDiagnosis", "awaitValidation"}
                  => /\ calls' = calls \/ (pc = "idle" /\ calls' = << >>)
                     /\ inflight' = NoCall
             /\ Len(outcomes') = i' \/ (pc' = "idle" /\ Len(outcomes') = i' + 1)
      ]_vars

\* the validation call of the second iteration is in flight
C27_Witness ==
    /\ variant = "agentic"
    /\ pc = "awaitValidation"
    /\ calls = << "diagnosis", "validation", "diagnosis", "validation" >>
    /\ Len(outcomes) = 1
    /\ inflight.prompt = state.dc_node_prompt


\* analyze run by itself on a request body with the settlements ans of its
\* awaits, from the head of the loop with state st and loop variable ii: the
\* state it reaches and its result (pending: an await has no settlement yet)
RECURSIVE RunAlone(_, _, _)
RunAlone(st, ii, ans) ==
    IF ~LoopContinues(ii) THEN [ st |-> st, result |-> ExhaustedResult(st) ]
    ELSE IF ans = << >> THEN [ st |-> st, result |-> [ status |-> "pending" ] ]
    ELSE LET d == IF Head(ans).threw THEN Head(ans)
                  ELSE validateResponse(Head(ans).value)
         IN  IF d.threw
             THEN RunAlone([ st EXCEPT !.lastError = d.message ], ii + 1, Tail(ans))
             ELSE IF ~d.value.hasMods
             THEN RunAlone([ st EXCEPT !.lastError = "TypeError" ], ii + 1, Tail(ans))
             ELSE LET patched ==
                          [ st EXCEPT !.dc_node_prompt =
                              compressPrompt(applyModifications(st.dc_node_prompt,
                                                                d.value.mods)) ]
                  IN  IF Len(ans) < 2
                      THEN [ st |-> patched, result |-> [ status |-> "pending" ] ]
                      ELSE IF ans[2].threw
                      THEN RunAlone([ patched EXCEPT !.lastError = ans[2].message ],
                                    ii + 1, Drop(ans, 2))
                      ELSE LET validation == parseValidationResult(ans[2].value)
                               counted ==
                                   [ patched EXCEPT
                                       !.tokenUsage = Append(@, validation.tokenUsage),
                                       !.iteration = @ + 1 ]
                           IN  IF Accepts(validation)
                               THEN [ st |-> counted,
                                      result |-> SuccessResult(counted, d.value,
                                                               validation) ]
                               ELSE RunAlone(counted, ii + 1, Drop(ans, 2))

\* the request of frame f is where it would be, and has the result it would
\* have, had it been the only request
AsAlone(f) ==
    f.req # NoBody
        => LET run == RunAlone([ dc_node_prompt |-> f.req.dc_node_prompt,
                                 conversationHistory |-> f.req.conversationHistory,
                                 iteration |-> 0, tokenUsage |-> << >>,
                                 lastError |-> Undefined ], 0, f.answers)
           IN  /\ f.state = run.st
               /\ IF f.pc = "idle"
                  THEN /\ f.response.body = run.result
                       /\ f.response.code = IF run.result.status = "success"
                                            THEN 200 ELSE 422
                  ELSE run.result.status = "pending"

\* C28: with two requests of the agentic handler in progress at a time, a
\* step of one request leaves everything the other request holds (its
\* prompt, iteration counter, token trail, last error, ...) as it was, and
\* each request's state and result are those of analyze run alone with the
\* same settlements of its LLM calls.  (Every state has a step from it, the
\* event loop can always turn to the other request; and the request that is
\* set aside by that step is compared in the state the step is taken from.)
C28_ConcurrentRequestsAreIsolated ==
    [][ (variant = "agentic" /\ Concurrent)
          => /\ \/ parked' = parked
                \/ parked' = Frame /\ Frame' = parked
             /\ AsAlone(Frame) ]_vars

\* both requests are in the middle of their second iteration, with
\* different prompts
C28_Witness ==
    /\ variant = "agentic"
    /\ pc = "awaitValidation" /\ parked.pc = "awaitDiagnosis"
    /\ Len(answers) = 3 /\ Len(parked.answers) = 2
    /\ state.dc_node_prompt # parked.state.dc_node_prompt


\* q is r, or r with entries added at its end
Extends(q, r) == Len(q) >= Len(r) /\ Take(q, Len(r)) = r

\* C29: in analyze the iteration counter starts at 0 and never decreases,
\* the token usage trail starts empty and is only appended to, and the
\* result reports the counter and, as cumulative usage, the sum of the trail.
C29_CounterAndTrailOnlyGrow ==
    [][ variant = "agentic"
          => /\ pc = "idle"
                  => state'.iteration = 0 /\ state'.tokenUsage = << >>
             /\ pc # "idle"
                  => /\ state'.iteration >= state.iteration
                     /\ Extends(state'.tokenUsage, state.tokenUsage)
             /\ (pc' = "idle" /\ response'.code \in {200, 422})
                  => /\ response'.body.tokens_used = Sum(state'.tokenUsage)
                     /\ response'.body.iterations = state'.iteration ]_vars

\* a success in the second iteration, both validations having used tokens
C29_Witness ==
    /\ Succeeded
    /\ state.iteration = 2
    /\ state.tokenUsage = << 5, 5 >>
    /\ response.body.tokens_used = 10


\* C30: a request of the agentic or of the step pipeline handler that has
\* the conversation history, the target response and the feedback, one of
\* them empty (an empty array, an empty string), is answered with 400 and
\* causes no LLM call.
C30_EmptyMandatoryFieldIsRejected ==
    ( /\ variant \in {"agentic", "steps"}
      /\ reqCount > 0
      /\ Mandatory(variant) \subseteq req.present
      /\ \/ req.conversationHistory = << >>
         \/ req.targetBotResponse = ""
         \/ req.userFeedback = "" )
        => /\ pc = "idle"
           /\ response.code = 400
           /\ llmCalls = 0


\* q is what is left of r when turns are dropped from its front
IsSuffix(q, r) == Len(q) <= Len(r) /\ Drop(r, Len(r) - Len(q)) = q

\* C31: a diagnosis prompt (the diagnosis call of analyze, every step call
\* of the step pipeline) holds a suffix of the request's conversation
\* history of at most 3 turns; a history of more than 3 turns is never
\* forwarded whole.
C31_DiagnosisPromptHoldsTrailingWindow ==
    ( /\ variant \in {"agentic", "steps"}
      /\ inflight.step \notin {"none", "validation"} )
        => /\ Len(inflight.history) <= 3
           /\ IsSuffix(inflight.history, req.conversationHistory)


\* C32: the extraction of the JSON text from a completion never raises;
\* for a completion without a fenced block it returns the text from the
\* first { to the last }, and when the completion has no brace at all it
\* returns the completion as it is.
C32_ExtractionNeverRaises ==
    (variant = "extraction" /\ response # NoResponse)
        => LET raw == req.raw
               opens == Places(raw, "{")
               closes == Places(raw, "}")
           IN  /\ ~response.threw
               /\ Cardinality(Places(raw, "F")) < 2
                    => /\ (opens # {} /\ closes # {} /\ Lowest(opens) < Highest(closes))
                          => response.value
                               = Span(raw, Lowest(opens), Highest(closes))
                       /\ (opens = {} /\ closes = {}) => response.value = raw


\* C33: compressPrompt runs list collapse, then example truncation, then
\* formatting; it returns also when strategies raise, a strategy that
\* raises leaves the text as it got it, and the strategies after it run on
\* that text.
C33_CompressSurvivesFailingStrategy ==
    (variant = "compression" /\ response # NoResponse)
        => LET collapsed == IF "removeRedundantInstructions" \in req.raising
                            THEN req.prompt
                            ELSE removeRedundantInstructions(req.prompt)
               shortened == IF "shortenExamples" \in req.raising THEN collapsed
                            ELSE shortenExamples(collapsed)
               formatted == IF "optimizeFormatting" \in req.raising THEN shortened
                            ELSE optimizeFormatting(shortened)
           IN  /\ ~response.threw
               /\ response.value = formatted

\* example truncation raised on a text it would have changed, and the
\* formatting after it still changed the text
C33_Witness ==
    /\ variant = "compression" /\ response # NoResponse
    /\ req.raising = {"shortenExamples"}
    /\ shortenExamples(req.prompt) # req.prompt
    /\ response.value # req.prompt
    /\ response.value # compressPrompt(req.prompt)


\* C34: whether analyze accepts a verdict depends on its confidence only:
\* with confidence >= 0.85 the request succeeds, also when the verdict says
\* valid = false, and with confidence < 0.85 the iteration ends in a retry,
\* also when the verdict says valid = true.
C34_AcceptanceByConfidenceOnly ==
    [][ (variant = "agentic" /\ pc = "awaitValidation" /\ ~received'.threw)
          => LET verdict == parseValidationResult(received'.value)
             IN  /\ Len(outcomes') = Len(outcomes) + 1
                 /\ Last(outcomes').valid = verdict.valid
                 /\ IF verdict.confidence >= confidenceThreshold
                    THEN /\ Last(outcomes').end = "accepted"
                         /\ pc' = "idle"
                         /\ response'.code = 200
                         /\ response'.body.status = "success"
                         /\ response'.body.validation = verdict
                    ELSE /\ Last(outcomes').end = "retry"
                         /\ response'.code # 200 ]_vars

\* a success on a verdict that says valid = false, after a retry on a
\* verdict that says valid = true
C34_Witness ==
    /\ Succeeded
    /\ ~response.body.validation.valid
    /\ Len(outcomes) = 2
    /\ outcomes[1].end = "retry" /\ outcomes[1].valid


\* how often step occurs in the calls made for the request
CallsOf(step) == Len(SelectSeq(calls, LAMBDA c : c = step))

\* the diagnosis calls of the request that returned a diagnosis satisfying
\* the schema: the iterations that did not end at the diagnosis, and the
\* one whose validation is awaited
ValidDiagnoses ==
    Len(SelectSeq(outcomes, LAMBDA o : o.end # "diagnosis_failed"))
      + IF pc = "awaitValidation" THEN 1 ELSE 0

\* C35: for a request analyze makes at most 3 diagnosis calls and at most 3
\* validation calls, 6 LLM calls in all, at most one of each in an
\* iteration, and never more validation calls than diagnosis calls that
\* returned a schema-valid diagnosis.
C35_AtMostSixCalls ==
    variant = "agentic"
        => /\ llmCalls <= 6
           /\ CallsOf("diagnosis") <= 3
           /\ CallsOf("validation") <= 3
           /\ llmCalls = CallsOf("diagnosis") + CallsOf("validation")
           /\ CallsOf("diagnosis") <= IterationsStarted
           /\ CallsOf("validation") <= CallsOf("diagnosis")
           /\ CallsOf("validation") <= ValidDiagnoses

\* six calls were made, and the third validation call was rejected
C35_Witness ==
    /\ variant = "agentic"
    /\ pc = "idle"
    /\ calls = << "diagnosis", "validation", "diagnosis", "validation",
                  "diagnosis", "validation" >>
    /\ outcomes[3].end = "validation_failed"


\* the ends of an iteration that raised while diagnosing or patching
EarlyEnds == {"diagnosis_failed", "patch_failed"}

\* C36: an iteration that raises in the diagnosis or in the patch leaves
\* the current prompt, the iteration counter and the token usage trail as
\* they were; when all three iterations end that way the exhausted result
\* has the request's prompt as final_prompt, iterations 0 and tokens_used 0.
C36_EarlyFailureLeavesStateAlone ==
    [][ variant = "agentic"
          => /\ ( /\ Len(outcomes') = Len(outcomes) + 1
                  /\ Last(outcomes').end \in EarlyEnds )
                  => /\ state'.dc_node_prompt = state.dc_node_prompt
                     /\ state'.iteration = state.iteration
                     /\ state'.tokenUsage = state.tokenUsage
             /\ ( /\ pc' = "idle" /\ response'.code = 422
                  /\ \A k \in DOMAIN outcomes' : outcomes'[k].end \in EarlyEnds )
                  => /\ response'.body.final_prompt = req'.dc_node_prompt
                     /\ response'.body.iterations = 0
                     /\ response'.body.tokens_used = 0 ]_vars

\* exhausted after a rejected diagnosis call, a diagnosis without
\* modifications and a diagnosis that is not JSON
C36_Witness ==
    /\ Exhausted
    /\ Len(outcomes) = 3
    /\ outcomes[1].end = "diagnosis_failed" /\ outcomes[1].error = "ServiceError"
    /\ outcomes[2].end = "patch_failed"
    /\ outcomes[3].end = "diagnosis_failed"
    /\ response.body.final_prompt = req.dc_node_prompt
    /\ response.body.iterations = 0


\* C37: when the validation call raises, the current prompt stays the
\* patched and compressed text of that iteration and is what the next
\* diagnosis call is sent, while the iteration counter and the token usage
\* trail stay as they were; the trail is always as long as the counter
\* says, and the counter never exceeds the iterations started.
C37_ValidationFailureKeepsPatchedPrompt ==
    [][ variant = "agentic"
          => /\ ( /\ Len(outcomes') = Len(outcomes) + 1
                  /\ Last(outcomes').end = "validation_failed" )
                  => /\ pc = "awaitValidation"
                     /\ state'.dc_node_prompt = inflight.prompt
                     /\ state'.dc_node_prompt = state.dc_node_prompt
                     /\ state'.iteration = state.iteration
                     /\ state'.tokenUsage = state.tokenUsage
                     /\ pc' = "awaitDiagnosis"
                          => inflight'.prompt = state.dc_node_prompt
             /\ Len(state'.tokenUsage) = state'.iteration
             /\ state'.iteration <= IterationsStarted' ]_vars

\* the second diagnosis call is sent the text patched in the first
\* iteration, whose validation call was rejected
C37_Witness ==
    /\ variant = "agentic"
    /\ pc = "awaitDiagnosis"
    /\ Len(outcomes) = 1
    /\ outcomes[1].end = "validation_failed"
    /\ state.dc_node_prompt # req.dc_node_prompt
    /\ inflight.prompt = state.dc_node_prompt
    /\ state.iteration = 0 /\ state.tokenUsage = << >>


PipelineOrder ==
    << "problemAnalysis", "rootCauseAnalysis", "solutionGeneration",
       "solutionValidation", "solutionRefinement", "finalResponse" >>

\* C39: the pipeline issues its calls one at a time in the order
\* problemAnalysis, rootCauseAnalysis, solutionGeneration,
\* solutionValidation, solutionRefinement, finalResponse: all six when no
\* call raises, whether or not the completions parse; a step whose
\* completion does not parse is not appended to analysisSteps; a call that
\* raises ends the pipeline and no further call is issued.
C39_SixCallsInOrder ==
    [][ variant = "steps"
          => /\ calls' = SubSeq(PipelineOrder, 1, Len(calls'))
             /\ pc' = "awaitStep" => inflight'.step = Last(calls')
             /\ pc' \in {"awaitCacheOpen", "awaitCacheWrite"} => calls' = PipelineOrder
             /\ ( pc = "awaitStep" /\ ~received'.threw )
                  => /\ response' = NoResponse
                     /\ IF inflight.step = "finalResponse"
                        THEN calls' = PipelineOrder /\ pc' = "awaitCacheOpen"
                        ELSE /\ Len(calls') = Len(calls) + 1
                             /\ pc' = "awaitStep"
                             /\ context'.analysisSteps =
                                  IF received'.value.kind = "json"
                                  THEN Append(context.analysisSteps,
                                              [ step |-> inflight.step,
                                                result |-> received'.value.value ])
                                  ELSE context.analysisSteps
             /\ ( pc = "awaitStep" /\ received'.threw )
                  => /\ calls' = calls
                     /\ pc' = "idle"
                     /\ response'.code = 500
                     /\ cache' = cache ]_vars

\* all six calls were made although the completion of the second step did
\* not parse; that step is missing from analysisSteps
C39_Witness ==
    /\ variant = "steps"
    /\ pc = "awaitCacheOpen"
    /\ calls = PipelineOrder
    /\ "rootCauseAnalysis" \in context.failedSteps
    /\ Len(context.analysisSteps) = 4
    /\ \A k \in DOMAIN context.analysisSteps :
         context.analysisSteps[k].step # "rootCauseAnalysis"


\* the cache holds the result of the request under its fingerprint
ResultCached(files) ==
    [ id |-> context.analysisId, file |-> Stringify(context.result) ] \in files

\* the files of the other fingerprints are as they were
OthersKept ==
    \A e \in cache : e.id # context.analysisId => e \in cache'

====
